---- MODULE Spec2Model ----
(***************************************************************************)
(* A model of the Narrative data-collaboration MCP server: the tool-call   *)
(* handler (src/src/handlers/prompt-handlers.ts, class ToolHandlers), the  *)
(* input validators (src/src/lib/config.ts, class ToolRegistry), the       *)
(* upstream clients (src/src/lib/api-client.ts, src/src/lib/sdk-client.ts) *)
(* and the resource handlers (src/build/handlers/resource-handlers.js).    *)
(* The ResourceManager (lib/resource-manager) is not among the sources; it *)
(* is modelled from the specification's section 4.1.                       *)
(*                                                                         *)
(* Strings are sequences of tokens: a token is a word of letters, one      *)
(* digit or one punctuation character.  Concatenation, number formatting,  *)
(* parseInt, trim and URL parsing work on these sequences.                 *)
(***************************************************************************)
EXTENDS Integers, Sequences, FiniteSets, TLC

VARIABLES resources, req, clock, started, sdk

vars == <<resources, req, clock, started, sdk>>

(* ------------------------------ strings -------------------------------- *)

Digits == <<"0", "1", "2", "3", "4", "5", "6", "7", "8", "9">>

IsDigit(c) == \E i \in 1..10 : Digits[i] = c

DigitValue(c) == (CHOOSE i \in 1..10 : Digits[i] = c) - 1

Words == {"dataset", "statistics", "sample", "access", "rule", "attribute",
          "nql", "job", "results", "resource", "abc", "q"}

IsAlpha(c) == c \in Words

\* The characters the URL parser's scheme state accepts after the first one.
IsSchemeChar(c) == IsAlpha(c) \/ IsDigit(c) \/ c \in {"-", "+", "."}

\* Number.prototype.toString / template-literal formatting of a non-negative integer.
RECURSIVE NumToStr(_)
NumToStr(n) ==
    IF n < 10 THEN <<Digits[n + 1]>>
    ELSE NumToStr(n \div 10) \o <<Digits[(n % 10) + 1]>>

\* String.prototype.trim: strips the white space at both ends.
RECURSIVE TrimLeft(_)
TrimLeft(s) == IF s # <<>> /\ Head(s) = " " THEN TrimLeft(Tail(s)) ELSE s

RECURSIVE TrimRight(_)
TrimRight(s) ==
    IF s # <<>> /\ s[Len(s)] = " " THEN TrimRight(SubSeq(s, 1, Len(s) - 1)) ELSE s

Trim(s) == TrimRight(TrimLeft(s))

\* The longest prefix of s made of digits.
RECURSIVE DigitPrefix(_)
DigitPrefix(s) ==
    IF s # <<>> /\ IsDigit(Head(s)) THEN <<Head(s)>> \o DigitPrefix(Tail(s)) ELSE <<>>

RECURSIVE DigitsToNum(_, _)
DigitsToNum(s, acc) ==
    IF s = <<>> THEN acc ELSE DigitsToNum(Tail(s), acc * 10 + DigitValue(Head(s)))

\* parseInt(s, 10): leading white space is skipped, the digits that follow are
\* read and whatever comes after them is ignored; NaN when no digit is read.
parseInt(s) ==
    LET d == DigitPrefix(TrimLeft(s))
    IN  IF d = <<>> THEN [nan |-> TRUE, n |-> 0]
        ELSE [nan |-> FALSE, n |-> DigitsToNum(d, 0)]

\* The index of the first occurrence of c in s at or after position from; 0 if none.
RECURSIVE IndexFrom(_, _, _)
IndexFrom(s, c, from) ==
    IF from > Len(s) THEN 0
    ELSE IF s[from] = c THEN from
    ELSE IndexFrom(s, c, from + 1)

(* ------------------------------ new URL() ------------------------------ *)

\* The path percent-encode set, as far as the tokens go: a space becomes %20.
PercentEncode(s) == [i \in 1..Len(s) |-> IF s[i] = " " THEN "%20" ELSE s[i]]

InvalidURL == [ok |-> FALSE, protocol |-> <<>>, host |-> <<>>, pathname |-> <<>>]

\* new URL(uri) without a base, for a scheme that is not special (none of
\* http, https, ws, wss, ftp, file): the scheme runs to the first colon and
\* must start with a letter; "//" opens an authority whose host runs to the
\* next slash, and the path is what follows the host; a single leading slash
\* opens a path; anything else is an opaque path kept as written.
URLParse(uri) ==
    LET colon == IndexFrom(uri, ":", 1)
    IN  IF colon < 2 \/ ~IsAlpha(uri[1])
           \/ \E i \in 1..(colon - 1) : ~IsSchemeChar(uri[i])
        THEN InvalidURL
        ELSE
          LET protocol == SubSeq(uri, 1, colon)
              rest == SubSeq(uri, colon + 1, Len(uri))
          IN  IF Len(rest) >= 2 /\ rest[1] = "/" /\ rest[2] = "/"
              THEN LET slash == IndexFrom(rest, "/", 3)
                       hostEnd == IF slash = 0 THEN Len(rest) ELSE slash - 1
                       host == SubSeq(rest, 3, hostEnd)
                       path == SubSeq(rest, hostEnd + 1, Len(rest))
                   IN  IF \E i \in 1..Len(host) : host[i] = " "
                       THEN InvalidURL
                       ELSE [ok |-> TRUE, protocol |-> protocol, host |-> host,
                             pathname |-> PercentEncode(path)]
              ELSE IF rest # <<>> /\ rest[1] = "/"
              THEN [ok |-> TRUE, protocol |-> protocol, host |-> <<>>,
                    pathname |-> PercentEncode(rest)]
              ELSE [ok |-> TRUE, protocol |-> protocol, host |-> <<>>,
                    pathname |-> rest]

\* url.pathname.replace(/^\//, "")
\* The path as the URL parser gives it, leading slash kept.
KeepLeadingSlash(p) == p

StripLeadingSlash(p) == IF p # <<>> /\ Head(p) = "/" THEN Tail(p) ELSE p

(* --------------------------- argument values --------------------------- *)

\* A JSON value of a tool call's arguments.  A number is n, or n + 1/2 when
\* half is set; an array is known by the type of its elements.
StrV(s) == [t |-> "string", s |-> s, n |-> 0, half |-> FALSE, b |-> FALSE]
NumV(n) == [t |-> "number", s |-> <<>>, n |-> n, half |-> FALSE, b |-> FALSE]
HalfV(n) == [t |-> "number", s |-> <<>>, n |-> n, half |-> TRUE, b |-> FALSE]
BoolV(b) == [t |-> "boolean", s |-> <<>>, n |-> 0, half |-> FALSE, b |-> b]
NullV == [t |-> "null", s |-> <<>>, n |-> 0, half |-> FALSE, b |-> FALSE]
StrArrV == [t |-> "string[]", s |-> <<>>, n |-> 0, half |-> FALSE, b |-> FALSE]
NumArrV == [t |-> "number[]", s |-> <<>>, n |-> 0, half |-> FALSE, b |-> FALSE]

NoArgs == [f \in {} |-> NullV]

AtLeast(v, m) == v.n >= m
AtMost(v, m) == IF v.half THEN v.n < m ELSE v.n <= m
Positive(v) == IF v.half THEN v.n >= 0 ELSE v.n > 0

(* --------------- ToolRegistry.tools: the declared shapes --------------- *)

JsonProp(types, minLength, minimum, maximum, enum) ==
    [types |-> types, minLength |-> minLength, minimum |-> minimum,
     maximum |-> maximum, enum |-> enum]

JsonString == JsonProp({"string"}, {1}, {}, {}, {})
JsonBoolean == JsonProp({"boolean"}, {}, {}, {}, {})
JsonPage == JsonProp({"number"}, {}, {1}, {}, {})
JsonPerPage == JsonProp({"number"}, {}, {1}, {100}, {})
JsonTags == JsonProp({"string", "string[]"}, {}, {}, {}, {})
JsonIds == JsonProp({"number", "number[]"}, {}, {}, {}, {})

AccessRuleFilterProps ==
    ("owned_only" :> JsonBoolean) @@ ("shared_only" :> JsonBoolean)
    @@ ("tag" :> JsonTags) @@ ("company_id" :> JsonIds) @@ ("dataset_id" :> JsonIds)
    @@ ("page" :> JsonPage) @@ ("per_page" :> JsonPerPage)

tools ==
    ("echo" :> [properties |-> ("message" :> JsonString), required |-> {"message"}])
    @@ ("search_attributes" :>
          [properties |-> ("query" :> JsonString) @@ ("page" :> JsonPage)
                          @@ ("perPage" :> JsonPerPage),
           required |-> {"query"}])
    @@ ("list_datasets" :> [properties |-> NoArgs, required |-> {}])
    @@ ("list_access_rules" :> [properties |-> AccessRuleFilterProps, required |-> {}])
    @@ ("search_access_rules" :>
          [properties |-> ("query" :> JsonString) @@ AccessRuleFilterProps,
           required |-> {"query"}])
    @@ ("dataset_statistics" :>
          [properties |-> ("dataset_id" :> JsonString), required |-> {"dataset_id"}])
    @@ ("dataset_sample" :>
          [properties |-> ("dataset_id" :> JsonString) @@ ("size" :> JsonPerPage),
           required |-> {"dataset_id"}])
    @@ ("nql_execute" :>
          [properties |-> ("query" :> JsonString) @@ ("generateSample" :> JsonBoolean)
                          @@ ("generateStats" :> JsonBoolean),
           required |-> {"query"}])
    @@ ("nql_get_results" :>
          [properties |-> ("jobId" :> JsonString)
                          @@ ("resultType" :>
                                JsonProp({"string"}, {}, {}, {},
                                         {<<"sample">>, <<"statistics">>})),
           required |-> {"jobId", "resultType"}])

getAllTools == DOMAIN tools

\* A value against one declared property (JSON Schema: type, minLength,
\* minimum, maximum, enum).  minLength is only ever 1, so counting tokens
\* decides it as counting characters does.
JsonPropOk(p, v) ==
    /\ v.t \in p.types
    /\ v.t = "string" =>
         /\ \A m \in p.minLength : Len(v.s) >= m
         /\ p.enum # {} => v.s \in p.enum
    /\ v.t = "number" =>
         /\ \A m \in p.minimum : AtLeast(v, m)
         /\ \A m \in p.maximum : AtMost(v, m)

\* The arguments conform to the tool's declared inputSchema.
ConformsToDeclared(toolName, args) ==
    LET schema == tools[toolName]
    IN  /\ schema.required \subseteq DOMAIN args
        /\ \A f \in DOMAIN args \cap DOMAIN schema.properties :
             JsonPropOk(schema.properties[f], args[f])

(* --------------- ToolRegistry validators: the Zod schemas -------------- *)

\* One key of a z.object: the accepted types, whether the key must be given
\* (neither .optional() nor .default()), the string checks in the order they
\* are chained (.trim() before .min()), the number checks (.int(),
\* .positive(), .max()), the enumeration and the default.
ZodField(types, required, trim, minLength, int, positive, max, enum, default) ==
    [types |-> types, required |-> required, trim |-> trim, minLength |-> minLength,
     int |-> int, positive |-> positive, max |-> max, enum |-> enum,
     default |-> default]

ZodString == ZodField({"string"}, TRUE, FALSE, {1}, FALSE, FALSE, {}, {}, {})
ZodTrimmed == ZodField({"string"}, TRUE, TRUE, {1}, FALSE, FALSE, {}, {}, {})
ZodBoolean == ZodField({"boolean"}, FALSE, FALSE, {}, FALSE, FALSE, {}, {}, {})
\* A flag without its default.
ZodFlagNoDefault == ZodField({"boolean"}, FALSE, FALSE, {}, FALSE, FALSE, {}, {}, {})

ZodFlag == ZodField({"boolean"}, FALSE, FALSE, {}, FALSE, FALSE, {}, {}, {BoolV(TRUE)})
ZodPage == ZodField({"number"}, FALSE, FALSE, {}, TRUE, TRUE, {}, {}, {NumV(1)})
ZodPerPage == ZodField({"number"}, FALSE, FALSE, {}, TRUE, TRUE, {100}, {}, {NumV(10)})
ZodTags == ZodField({"string", "string[]"}, FALSE, FALSE, {}, FALSE, FALSE, {}, {}, {})
ZodIds == ZodField({"number", "number[]"}, FALSE, FALSE, {}, FALSE, FALSE, {}, {}, {})
\* A result type that may be any string.
ZodResultTypeOpen == ZodField({"string"}, TRUE, FALSE, {}, FALSE, FALSE, {}, {}, {})

ZodResultType ==
    ZodField({"string"}, TRUE, FALSE, {}, FALSE, FALSE, {},
             {<<"sample">>, <<"statistics">>}, {})

EchoSchema == ("message" :> ZodString)

\* The search schema without the upper limit on perPage.
SearchSchemaUnbounded ==
    ("query" :> ZodString) @@ ("page" :> ZodPage) @@ ("perPage" :> ZodPage)

SearchSchema ==
    ("query" :> ZodString) @@ ("page" :> ZodPage) @@ ("perPage" :> ZodPerPage)

ListSchema == [f \in {} |-> ZodString]

ListAccessRulesSchema ==
    ("owned_only" :> ZodBoolean) @@ ("shared_only" :> ZodBoolean)
    @@ ("tag" :> ZodTags) @@ ("company_id" :> ZodIds) @@ ("dataset_id" :> ZodIds)
    @@ ("page" :> ZodPage) @@ ("per_page" :> ZodPerPage)

SearchAccessRulesSchema == ("query" :> ZodString) @@ ListAccessRulesSchema

DatasetStatisticsSchema == ("dataset_id" :> ZodString)

DatasetSampleSchema == ("dataset_id" :> ZodString) @@ ("size" :> ZodPerPage)

NqlExecuteSchema ==
    ("query" :> ZodTrimmed) @@ ("generateSample" :> ZodFlag)
    @@ ("generateStats" :> ZodFlag)

NqlGetResultsSchema == ("jobId" :> ZodTrimmed) @@ ("resultType" :> ZodResultType)

\* The value a key parses to: a string is trimmed when the schema says so.
ZodValue(z, v) == IF v.t = "string" /\ z.trim THEN StrV(Trim(v.s)) ELSE v

ZodValueOk(z, v) ==
    /\ v.t \in z.types
    /\ v.t = "string" =>
         /\ \A m \in z.minLength : Len(ZodValue(z, v).s) >= m
         /\ z.enum # {} => v.s \in z.enum
    /\ v.t = "number" =>
         /\ z.int => ~v.half
         /\ z.positive => Positive(v)
         /\ \A m \in z.max : AtMost(v, m)

\* schema.safeParse(input).success
ZodAccepts(schema, input) ==
    \A f \in DOMAIN schema :
        IF f \in DOMAIN input THEN ZodValueOk(schema[f], input[f])
        ELSE ~schema[f].required

\* schema.parse(input) of an accepted input: the keys of the schema that are
\* given or have a default; unknown keys are stripped.
ZodParse(schema, input) ==
    LET keys == {f \in DOMAIN schema : f \in DOMAIN input \/ schema[f].default # {}}
    IN  [f \in keys |->
            IF f \in DOMAIN input THEN ZodValue(schema[f], input[f])
            ELSE CHOOSE d \in schema[f].default : TRUE]

\* The validator validateToolInput routes a tool name to; {} for a name it
\* does not know.
ValidatorOf(toolName) ==
    CASE toolName = "echo" -> {EchoSchema}
      [] toolName = "search_attributes" -> {SearchSchema}
      [] toolName = "list_datasets" -> {ListSchema}
      [] toolName = "list_access_rules" -> {ListAccessRulesSchema}
      [] toolName = "search_access_rules" -> {SearchAccessRulesSchema}
      [] toolName = "dataset_statistics" -> {DatasetStatisticsSchema}
      [] toolName = "dataset_sample" -> {DatasetSampleSchema}
      [] toolName = "nql_execute" -> {NqlExecuteSchema}
      [] toolName = "nql_get_results" -> {NqlGetResultsSchema}
      [] OTHER -> {}

\* ToolRegistry.validateToolInput: the parsed input, a ZodError, or the plain
\* Error("Unknown tool: ...") of the default branch.
validateToolInput(toolName, input) ==
    IF ValidatorOf(toolName) = {}
    THEN [threw |-> "Error", value |-> NoArgs]
    ELSE LET schema == CHOOSE z \in ValidatorOf(toolName) : TRUE
         IN  IF ZodAccepts(schema, input)
             THEN [threw |-> "none", value |-> ZodParse(schema, input)]
             ELSE [threw |-> "ZodError", value |-> NoArgs]

(* ------------------------- payloads and entries ------------------------ *)

\* An object of the upstream platform or of a handler: what it is, its
\* string or numeric identifier, the upstream call that produced it (nonce)
\* and, for a job, the query and the status.
Obj(type, s, n, nonce, query, status) ==
    [type |-> type, s |-> s, n |-> n, nonce |-> nonce, query |-> query,
     status |-> status]

NoObj == Obj("none", <<>>, 0, 0, <<>>, "")

\* JSON.stringify(value, null, 2): the text of a value, which is not the value.
JSONStringify(obj) == [json |-> obj]

NoText == JSONStringify(NoObj)

\* StoredResource (src/src/types/index.ts).
StoredResource(id, name, content, description, mimeType) ==
    [id |-> id, name |-> name, content |-> content, description |-> description,
     mimeType |-> mimeType]

(* ----------- ResourceManager: the registry of section 4.1 -------------- *)

Addresses(reg) == {reg[i].id : i \in 1..Len(reg)}

\* put: inserts at the end, or replaces the whole entry where the address is.
setResource(reg, id, resource) ==
    IF id \in Addresses(reg)
    THEN [i \in 1..Len(reg) |-> IF reg[i].id = id THEN resource ELSE reg[i]]
    ELSE Append(reg, resource)

\* get: the entries stored at an address (none or one).
Lookup(reg, id) == {reg[i] : i \in {j \in 1..Len(reg) : reg[j].id = id}}

\* The key-construction rule of addBatch: "<kind>-<id>".
BatchAddress(kind, record) ==
    CASE kind = "dataset" -> <<"dataset", "-">> \o record.s
      [] kind = "attribute" -> <<"attribute", "-">> \o NumToStr(record.n)
      [] kind = "access-rule" -> <<"access", "-", "rule", "-">> \o NumToStr(record.n)

BatchEntry(kind, record) ==
    StoredResource(BatchAddress(kind, record), <<kind>> \o record.s,
                   JSONStringify(record), <<kind>>, "application/json")

\* addBatch: one put per record, in the order of the batch.
RECURSIVE addBatch(_, _, _)
addBatch(reg, kind, records) ==
    IF records = <<>> THEN reg
    ELSE addBatch(setResource(reg, BatchAddress(kind, Head(records)),
                              BatchEntry(kind, Head(records))),
                  kind, Tail(records))

\* list(): the addresses in insertion order.
getResourcesForList(reg) == [i \in 1..Len(reg) |-> reg[i].id]

\* getResourceContents(id, uri): the stored payload and its content kind.
getResourceContents(reg, id) ==
    {[mimeType |-> e.mimeType, text |-> e.content] : e \in Lookup(reg, id)}

(* ------------------------------- bounds -------------------------------- *)

\* The number of requests (tool calls, resource reads, listings) of a run.
MaxRequests == 2

(* ------------------------------ upstream ------------------------------- *)

\* An upstream call: the operation and its string, numeric and result-type
\* arguments.
Call(op, s, n, rt) == [op |-> op, s |-> s, n |-> n, rt |-> rt]

\* An upstream response: a failure (transport, auth, 4xx/5xx, timeout), or
\* the records of a listing, or one object.
Resp(ok, recs, obj) == [ok |-> ok, recs |-> recs, obj |-> obj]

NoResp == Resp(FALSE, <<>>, NoObj)
Failure == Resp(FALSE, <<>>, NoObj)

\* The identifiers of the records a listing may return, in upstream order.
IdLists == {<<>>, <<67>>, <<2, 1>>, <<1, 2, 67>>, <<1, 1>>}

JobIds == {<<"job", "_", "1">>}

JobStatuses == {"submitted", "running", "completed", "failed"}

Record(type, n, nonce) == Obj(type, NumToStr(n), n, nonce, <<>>, "")

\* A dataset whose id is a string that is not a number (Dataset.id: string).
NamedDataset(nonce) == Obj("dataset", <<"sample", "-", "1">>, 0, nonce, <<>>, "")

\* What the upstream may answer to a call; nonce tells answers apart.
Responses(call, nonce) ==
    {Failure} \cup
    CASE call.op \in {"fetchAttributes"} ->
           {Resp(TRUE, [i \in 1..Len(l) |-> Record("attribute", l[i], nonce)], NoObj)
              : l \in IdLists}
      [] call.op \in {"fetchDatasets"} ->
           {Resp(TRUE, [i \in 1..Len(l) |-> Record("dataset", l[i], nonce)], NoObj)
              : l \in IdLists}
           \cup {Resp(TRUE, <<NamedDataset(nonce)>>, NoObj)}
      [] call.op \in {"fetchAccessRules", "searchAccessRules"} ->
           {Resp(TRUE, [i \in 1..Len(l) |-> Record("access-rule", l[i], nonce)], NoObj)
              : l \in IdLists}
      [] call.op = "nql.execute" ->
           {Resp(TRUE, <<>>, Obj("job", j, 0, nonce, <<>>, "submitted")) : j \in JobIds}
      [] call.op = "jobs.getStatus" ->
           {Resp(TRUE, <<>>, Obj("status", call.s, 0, nonce, <<>>, st))
              : st \in JobStatuses}
      [] OTHER ->
           {Resp(TRUE, <<>>, Obj(call.op, call.s, call.n, nonce, <<>>, ""))}

(* ------------------------------ requests ------------------------------- *)

Outcome(kind, code, err, text, list) ==
    [kind |-> kind, code |-> code, err |-> err, text |-> text, list |-> list]

Err(tag, s, status) == [tag |-> tag, s |-> s, status |-> status]

NoErr == Err("none", <<>>, "")

NoOutcome == Outcome("none", "", NoErr, NoText, <<>>)

\* A normal tool result, a result with isError, a thrown McpError with its
\* code, any other thrown error, and what the resource handlers return.
Result == Outcome("result", "", NoErr, NoText, <<>>)
IsError(err) == Outcome("isError", "", err, NoText, <<>>)
McpError(code, err) == Outcome("McpError", code, err, NoText, <<>>)
Thrown(name) == Outcome(name, "", NoErr, NoText, <<>>)
Contents(c) == Outcome("contents", c.mimeType, NoErr, c.text, <<>>)
Listing(kind, list) == Outcome(kind, "", NoErr, NoText, list)

\* A request: where it stands, what was asked (a tool call's name and
\* arguments, a read's uri), the upstream calls it has made, the job status
\* getJobResults has seen, the last upstream response, the addresses the
\* registry held when the handler came to it, how it ended, and how many
\* upstream answers had arrived when it began.
Request(pc, kind, name, args, uri, calls, resp, before, outcome) ==
    [pc |-> pc, kind |-> kind, name |-> name, args |-> args, uri |-> uri,
     calls |-> calls, status |-> "", resp |-> resp, before |-> before,
     outcome |-> outcome, at |-> clock]

Idle == Request("idle", "none", "", NoArgs, <<>>, <<>>, NoResp, {}, NoOutcome)

Clients == {"c1", "c2"}

Free(c) == req[c].pc \in {"idle", "done"} /\ started < MaxRequests

(* ---------------------------- tool handlers ---------------------------- *)

ToolNames == getAllTools \cup {"unknown_tool"}

Q == <<"q">>
Job1 == <<"job", "_", "1">>
Job2 == <<"job", " ", "2">>

\* The arguments a caller may send with a tool call.
ArgsFor(toolName) ==
    CASE toolName = "echo" ->
           {NoArgs, "message" :> StrV(Q), "message" :> StrV(<<>>), "message" :> NumV(5)}
      [] toolName = "search_attributes" ->
           {NoArgs, "query" :> StrV(Q),
            ("query" :> StrV(Q)) @@ ("perPage" :> NumV(101)),
            ("query" :> StrV(Q)) @@ ("perPage" :> NumV(100)),
            ("query" :> StrV(Q)) @@ ("page" :> NumV(0)),
            ("query" :> StrV(Q)) @@ ("page" :> HalfV(1)),
            ("query" :> StrV(Q)) @@ ("perPage" :> StrV(<<"1">>))}
      [] toolName = "list_datasets" -> {NoArgs, "limit" :> NumV(5)}
      [] toolName = "list_access_rules" ->
           {NoArgs, "per_page" :> NumV(101), "owned_only" :> StrV(Q),
            "tag" :> StrArrV, "company_id" :> StrV(Q), "page" :> NullV}
      [] toolName = "search_access_rules" ->
           {NoArgs, "query" :> StrV(Q), "query" :> StrV(<<>>), "query" :> NumV(5),
            ("query" :> StrV(Q)) @@ ("dataset_id" :> NumArrV),
            ("query" :> StrV(Q)) @@ ("tag" :> NumV(1))}
      [] toolName = "dataset_statistics" ->
           {NoArgs, "dataset_id" :> StrV(<<"1">>), "dataset_id" :> NumV(1),
            "dataset_id" :> StrV(<<>>), "dataset_id" :> StrV(<<"abc">>)}
      [] toolName = "dataset_sample" ->
           {NoArgs, "dataset_id" :> StrV(<<"1">>),
            ("dataset_id" :> StrV(<<"1">>)) @@ ("size" :> NumV(101)),
            ("dataset_id" :> StrV(<<"1">>)) @@ ("size" :> NumV(0)),
            ("dataset_id" :> StrV(<<"1">>)) @@ ("size" :> HalfV(2)),
            ("dataset_id" :> StrV(<<"1">>)) @@ ("size" :> NumV(5))}
      [] toolName = "nql_execute" ->
           {NoArgs, "query" :> StrV(Q), "query" :> StrV(<<" ">>),
            ("query" :> StrV(Q)) @@ ("generateSample" :> StrV(Q)),
            ("query" :> StrV(Q)) @@ ("generateStats" :> BoolV(FALSE)),
            "query" :> StrV(<<" ">> \o Q \o <<" ">>), "query" :> StrV(<<>>),
            "query" :> NumV(5), "generateSample" :> BoolV(TRUE),
            ("query" :> StrV(Q)) @@ ("generateStats" :> NumV(1)),
            ("query" :> StrV(Q)) @@ ("generateSample" :> BoolV(FALSE))
               @@ ("generateStats" :> BoolV(TRUE))}
      [] toolName = "nql_get_results" ->
           {NoArgs, "resultType" :> StrV(<<"sample">>),
            ("jobId" :> StrV(Job1)) @@ ("resultType" :> StrV(<<"sample">>)),
            ("jobId" :> StrV(Job1)) @@ ("resultType" :> StrV(<<"statistics">>)),
            ("jobId" :> StrV(Job1)) @@ ("resultType" :> StrV(<<"results">>)),
            ("jobId" :> StrV(<<" ">> \o Job1 \o <<" ">>))
               @@ ("resultType" :> StrV(<<"sample">>)),
            ("jobId" :> StrV(<<" ">>)) @@ ("resultType" :> StrV(<<"sample">>)),
            ("jobId" :> StrV(Job2)) @@ ("resultType" :> StrV(<<"sample">>)),
            "jobId" :> StrV(Job1),
            ("jobId" :> StrV(Job1)) @@ ("resultType" :> NumV(1)),
            ("jobId" :> StrV(<<>>)) @@ ("resultType" :> StrV(<<"sample">>)),
            ("jobId" :> NumV(1)) @@ ("resultType" :> StrV(<<"statistics">>))}
      [] OTHER -> {NoArgs}

\* A switch without the two query-language cases.
HandledToolsWithoutNql ==
    {"echo", "search_attributes", "list_datasets", "list_access_rules",
     "search_access_rules", "dataset_statistics", "dataset_sample"}

\* The names the switch of the tool-call handler has a case for.
HandledTools ==
    {"echo", "search_attributes", "list_datasets", "list_access_rules",
     "search_access_rules", "dataset_statistics", "dataset_sample", "nql_execute",
     "nql_get_results"}

\* The add...AsResources method a listing handler hands the records to.
\* Every batch filed under the dataset kind.
BatchKindDataset(toolName) == "dataset"

BatchKind(toolName) ==
    CASE toolName = "search_attributes" -> "attribute"
      [] toolName = "list_datasets" -> "dataset"
      [] toolName = "list_access_rules" -> "access-rule"
      [] toolName = "search_access_rules" -> "access-rule"

ListingTools ==
    {"search_attributes", "list_datasets", "list_access_rules", "search_access_rules"}

\* The first upstream call of a handler given its validated input; {} when
\* it makes none (echo; a dataset id parseInt reads no number from).
FirstCall(toolName, input) ==
    CASE toolName = "echo" -> {}
      [] toolName = "search_attributes" ->
           {Call("fetchAttributes", input["query"].s, input["perPage"].n, <<>>)}
      [] toolName = "list_datasets" -> {Call("fetchDatasets", <<>>, 0, <<>>)}
      [] toolName = "list_access_rules" ->
           {Call("fetchAccessRules", <<>>, input["per_page"].n, <<>>)}
      [] toolName = "search_access_rules" ->
           {Call("searchAccessRules", input["query"].s, input["per_page"].n, <<>>)}
      [] toolName = "dataset_statistics" ->
           LET datasetId == parseInt(input["dataset_id"].s)
           IN  IF datasetId.nan THEN {}
               ELSE {Call("getStatistics", <<>>, datasetId.n, <<>>)}
      [] toolName = "dataset_sample" ->
           LET datasetId == parseInt(input["dataset_id"].s)
           IN  IF datasetId.nan THEN {}
               ELSE {Call("getDatasetSample", <<>>, datasetId.n, <<>>)}
      [] toolName = "nql_execute" -> {Call("nql.execute", input["query"].s, 0, <<>>)}
      [] toolName = "nql_get_results" ->
           {Call("jobs.getStatus", input["jobId"].s, 0, <<>>)}

\* The statistics id keyed by nothing but the kind.
StatisticsResourceIdFixed(args) == <<"dataset", "-", "statistics">>

StatisticsResourceId(args) == <<"dataset", "-", "statistics", "-">> \o args["dataset_id"].s

SampleResourceId(args) == <<"dataset", "-", "sample", "-">> \o args["dataset_id"].s

\* The job id left out of the address.
NqlJobResourceIdBare(response) == <<"nql", "-", "job">>

NqlJobResourceId(response) == <<"nql", "-", "job", "-">> \o response.s

NqlResultsResourceId(args) ==
    <<"nql", "-", "results", "-">> \o args["jobId"].s \o <<"-">> \o args["resultType"].s

\* The "Resource:" link a handler prints in its successful response.
ResourceLink(toolName, args, response) ==
    CASE toolName = "dataset_statistics" ->
           <<"dataset", "-", "statistics", ":", "/", "/">> \o args["dataset_id"].s
      [] toolName = "dataset_sample" ->
           <<"dataset", "-", "sample", ":", "/", "/">> \o args["dataset_id"].s
      [] toolName = "nql_execute" -> <<"nql", "-", "job", ":", "/", "/">> \o response.s
      [] toolName = "nql_get_results" ->
           <<"nql", "-", "results", ":", "/", "/">> \o args["jobId"].s \o <<"/">>
              \o args["resultType"].s

\* The "Resource:" link a listing handler prints for each record.
RecordLink(kind, record) ==
    CASE kind = "dataset" -> <<"dataset", ":", "/", "/">> \o record.s
      [] kind = "access-rule" ->
           <<"access", "-", "rule", ":", "/", "/">> \o NumToStr(record.n)

\* The entry a handler stores once its upstream call has succeeded.
HandlerResource(toolName, args, response) ==
    CASE toolName = "dataset_statistics" ->
           StoredResource(StatisticsResourceId(args),
                          <<"Statistics for Dataset ">> \o args["dataset_id"].s,
                          JSONStringify(response),
                          <<"Comprehensive statistics for dataset ">>
                             \o args["dataset_id"].s,
                          "application/json")
      [] toolName = "dataset_sample" ->
           StoredResource(SampleResourceId(args),
                          <<"Sample data for Dataset ">> \o args["dataset_id"].s,
                          JSONStringify(response),
                          <<"Sample records from dataset ">> \o args["dataset_id"].s,
                          "application/json")
      [] toolName = "nql_execute" ->
           StoredResource(NqlJobResourceId(response),
                          <<"NQL Job ">> \o response.s,
                          JSONStringify(Obj("job", response.s, 0, response.nonce,
                                            args["query"].s, response.status)),
                          <<"NQL query execution job">>,
                          "application/json")
      [] toolName = "nql_get_results" ->
           StoredResource(NqlResultsResourceId(args),
                          <<"NQL ">> \o args["resultType"].s \o <<" results for job ">>
                             \o args["jobId"].s,
                          JSONStringify(response),
                          <<"Results from NQL job ">> \o args["jobId"].s,
                          "application/json")

\* A handler whose store starts from a fresh registry and so drops what was
\* there.
StoredAlone(reg, toolName, args, response) ==
    IF toolName \in ListingTools
    THEN addBatch(<<>>, BatchKind(toolName), response.recs)
    ELSE setResource(<<>>, HandlerResource(toolName, args, response.obj).id,
                     HandlerResource(toolName, args, response.obj))

\* A handler that has put only the first record of a batch when it returns.
StoredHead(reg, toolName, args, response) ==
    IF toolName \in ListingTools
    THEN addBatch(reg, BatchKind(toolName),
                  SubSeq(response.recs, 1, IF response.recs = <<>> THEN 0 ELSE 1))
    ELSE setResource(reg, HandlerResource(toolName, args, response.obj).id,
                     HandlerResource(toolName, args, response.obj))

\* The registry after a handler has stored what a successful response gives.
Stored(reg, toolName, args, response) ==
    IF toolName \in ListingTools
    THEN addBatch(reg, BatchKind(toolName), response.recs)
    ELSE setResource(reg, HandlerResource(toolName, args, response.obj).id,
                     HandlerResource(toolName, args, response.obj))

\* A job taken as completed as soon as it has not failed.
IsNotFailed(status) == status.status # "failed"

\* sdk-client getJobResults: the results are fetched only for a completed job.
IsCompleted(status) == status.status = "completed"

(* --------------------------- resource reads ---------------------------- *)

DatasetScheme == <<"dataset">>
AccessRuleScheme == <<"access", "-", "rule">>
ResourceScheme == <<"resource">>

Colon == <<":">>
TwoSlashes == <<":", "/", "/">>
ThreeSlashes == <<":", "/", "/", "/">>

\* Addresses the tools of this model can store, and one they cannot
\* (dataset-9).
KnownAddresses ==
    {<<"dataset", "-", "1">>, <<"access", "-", "rule", "-", "6", "7">>,
     <<"attribute", "-", "2">>, <<"dataset", "-", "statistics", "-", "1">>,
     <<"nql", "-", "job", "-">> \o Job1,
     <<"nql", "-", "results", "-">> \o Job2 \o <<"-", "sample">>,
     <<"dataset", "-", "9">>}

\* The uris a caller may ask to read.
ReadURIs ==
    {DatasetScheme \o sep \o id :
        sep \in {Colon, TwoSlashes, ThreeSlashes}, id \in {<<>>, <<"1">>, <<"abc">>}}
    \cup
    {AccessRuleScheme \o sep \o id :
        sep \in {Colon, TwoSlashes, ThreeSlashes},
        id \in {<<>>, <<"6", "7">>, <<"abc">>, <<"6", "7", "abc">>}}
    \cup
    {ResourceScheme \o sep \o a :
        sep \in {Colon, TwoSlashes, ThreeSlashes}, a \in KnownAddresses}
    \cup
    {<<"dataset", "-", "1">>, <<"access", "-", "rule", "-", "6", "7">>, <<>>,
     <<"nql", "-", "job">> \o TwoSlashes \o Job1,
     <<"dataset", "-", "statistics">> \o TwoSlashes \o <<"1">>,
     <<"dataset", "-", "sample">> \o TwoSlashes \o <<"1">>,
     <<"nql", "-", "results">> \o TwoSlashes \o Job1 \o <<"/", "sample">>,
     <<"attribute">> \o Colon \o <<"2">>,
     <<"6", "7">> \o Colon \o <<"dataset", "-", "1">>}

\* The table with a pattern for the resource scheme as well.
ResourceTemplatesAll ==
    <<DatasetScheme \o TwoSlashes \o <<"{id}">>,
      AccessRuleScheme \o TwoSlashes \o <<"{id}">>,
      ResourceScheme \o ThreeSlashes \o <<"{id}">>>>

\* The static table of the template listing.
ResourceTemplates ==
    <<DatasetScheme \o TwoSlashes \o <<"{id}">>,
      AccessRuleScheme \o TwoSlashes \o <<"{id}">>>>

(* ---------------- environment and the SDK client ----------------------- *)

MaxOperations == 2

\* An environment variable is unset ({}) or holds one string.
Unset == {}
Set(s) == {s}

RequiredVariables == <<"NARRATIVE_API_URL", "NARRATIVE_API_TOKEN">>

DevUrl == <<"https", ":", "/", "/", "api", "-", "dev", ".", "narrative", ".", "io">>
ProdUrl == <<"https", ":", "/", "/", "api", ".", "narrative", ".", "io">>
Token == <<"secret">>

\* The environments the process may be started in.
Environments ==
    [NARRATIVE_API_URL : {Unset, Set(<<>>), Set(DevUrl), Set(ProdUrl)},
     NARRATIVE_API_TOKEN : {Unset, Set(<<>>), Set(<<" ">>), Set(Token)}]

\* env.NAME || ""
EnvOrEmpty(env, name) == IF env[name] = Unset THEN <<>> ELSE CHOOSE v \in env[name] : TRUE

\* missing.join(", ")
RECURSIVE Join(_)
Join(names) ==
    IF names = <<>> THEN <<>>
    ELSE IF Len(names) = 1 THEN names
    ELSE <<Head(names), ", ">> \o Join(Tail(names))

\* A validation that looks at the base URL only.
validateEnvironmentVariablesUrlOnly(env) ==
    LET NARRATIVE_API_URL == EnvOrEmpty(env, "NARRATIVE_API_URL")
        NARRATIVE_API_TOKEN == EnvOrEmpty(env, "NARRATIVE_API_TOKEN")
        missing == IF NARRATIVE_API_URL = <<>> THEN <<"NARRATIVE_API_URL">> ELSE <<>>
    IN  IF Len(missing) > 0
        THEN [threw |-> TRUE,
              message |-> <<"Missing required environment variables: ">> \o Join(missing),
              apiUrl |-> <<>>, apiToken |-> <<>>]
        ELSE [threw |-> FALSE, message |-> <<>>,
              apiUrl |-> NARRATIVE_API_URL, apiToken |-> NARRATIVE_API_TOKEN]

\* validateEnvironmentVariables: the ServerConfig, or the Error thrown with
\* its message.
validateEnvironmentVariables(env) ==
    LET NARRATIVE_API_URL == EnvOrEmpty(env, "NARRATIVE_API_URL")
        NARRATIVE_API_TOKEN == EnvOrEmpty(env, "NARRATIVE_API_TOKEN")
        missing == (IF NARRATIVE_API_URL = <<>> THEN <<"NARRATIVE_API_URL">> ELSE <<>>)
                   \o (IF NARRATIVE_API_TOKEN = <<>> THEN <<"NARRATIVE_API_TOKEN">>
                       ELSE <<>>)
    IN  IF Len(missing) > 0
        THEN [threw |-> TRUE,
              message |-> <<"Missing required environment variables: ">> \o Join(missing),
              apiUrl |-> <<>>, apiToken |-> <<>>]
        ELSE [threw |-> FALSE, message |-> <<>>,
              apiUrl |-> NARRATIVE_API_URL, apiToken |-> NARRATIVE_API_TOKEN]

NoConfig == [threw |-> FALSE, message |-> <<>>, apiUrl |-> <<>>, apiToken |-> <<>>]

\* An SDK object: which construction made it, and what it was made with.
\* id 0 is the null the client starts with.
Instance(id, apiKey, environment) ==
    [id |-> id, apiKey |-> apiKey, environment |-> environment]

NoInstance == Instance(0, <<>>, "")

\* apiUrl.includes('dev') ? 'dev' : 'prod'
Environment(apiUrl) ==
    IF \E i \in 1..Len(apiUrl) : apiUrl[i] = "dev" THEN "dev" ELSE "prod"

\* The options a caller may give executeNql; the empty one stands for an
\* omitted argument and for {}.
NoOptions == [f \in {} |-> TRUE]

OptionSets ==
    {NoOptions, "generateSample" :> FALSE, "generateStats" :> FALSE,
     ("generateSample" :> FALSE) @@ ("generateStats" :> TRUE),
     ("generateSample" :> TRUE) @@ ("generateStats" :> FALSE)}

\* The options handleNqlExecute builds from its validated input.
HandlerOptions(args) ==
    ("generateSample" :> args["generateSample"].b)
    @@ ("generateStats" :> args["generateStats"].b)

\* Options handed on as given, with an omitted flag left off.
ExecuteOptionsAsGiven(options) ==
    [generateSample |-> "generateSample" \in DOMAIN options /\ options["generateSample"],
     generateStatistics |-> "generateStats" \in DOMAIN options /\ options["generateStats"]]

\* The options executeNql hands to the SDK: options?.flag ?? true.
ExecuteOptions(options) ==
    [generateSample |->
        IF "generateSample" \in DOMAIN options THEN options["generateSample"] ELSE TRUE,
     generateStatistics |->
        IF "generateStats" \in DOMAIN options THEN options["generateStats"] ELSE TRUE]

NoFlags == [generateSample |-> FALSE, generateStatistics |-> FALSE]

\* A call on the SDK object: which object, the method, and its arguments.
SdkCall(on, op, s, n, flags) == [on |-> on, op |-> op, s |-> s, n |-> n, flags |-> flags]

\* One operation of the SDK client: where it stands, what was asked, how it
\* got its SDK object, the object it got, the calls it made on it, what the
\* SDK answered and what the operation returned or threw.
Operation(pc, operation, args, query, options) ==
    [pc |-> pc, operation |-> operation, args |-> args, query |-> query,
     options |-> options, init |-> "", on |-> 0, sent |-> <<>>,
     resp |-> NoResp, threw |-> "", result |-> NoObj]

NoOperation == Operation("idle", "", NoArgs, <<>>, NoOptions)

\* The process before startup: the environment, the config once validated,
\* the client's sdkInstance, how many SDK objects were constructed,
\* what console.log is, and the operations of the callers.
Process(env) ==
    [env |-> env, started |-> FALSE, config |-> NoConfig, sdkInstance |-> NoInstance,
     constructed |-> 0, consoleLog |-> "original", begun |-> 0,
     op |-> [c \in {"c1", "c2"} |-> NoOperation]]

\* The process once config.ts has been loaded.
Booted(p) ==
    [p EXCEPT !.started = TRUE, !.config = validateEnvironmentVariables(p.env)]

GoodEnvironment == [NARRATIVE_API_URL |-> Set(ProdUrl), NARRATIVE_API_TOKEN |-> Set(Token)]

(* ------------------------------- actions ------------------------------- *)

Init ==
    /\ resources = <<>>
    /\ clock = 0
    /\ started = 0
    /\ req = [c \in Clients |-> Idle]
    /\ sdk = Booted(Process(GoodEnvironment))

Finish(c, r, outcome) ==
    req' = [req EXCEPT ![c] = [r EXCEPT !.pc = "done", !.outcome = outcome]]

\* The tool-call handler up to its first suspension: validateToolInput, the
\* switch, and the handler down to its upstream call.
CallTool(c) ==
    /\ Free(c)
    /\ started' = started + 1
    /\ UNCHANGED <<resources, clock>>
    /\ \E name \in ToolNames : \E args \in ArgsFor(name) :
         LET r == Request("start", "tool", name, args, <<>>, <<>>, NoResp, {}, NoOutcome)
             v == validateToolInput(name, args)
         IN  IF v.threw = "ZodError"
             THEN Finish(c, r, McpError("InvalidParams", NoErr))
             ELSE IF v.threw # "none"
             THEN Finish(c, r, Thrown(v.threw))
             ELSE IF name \notin HandledTools
             THEN Finish(c, r, McpError("MethodNotFound", NoErr))
             ELSE IF name = "echo"
             THEN Finish(c, r, Result)
             ELSE IF FirstCall(name, v.value) = {}
             THEN Finish(c, r, IsError(Err("InvalidId", v.value["dataset_id"].s, "")))
             ELSE req' = [req EXCEPT ![c] =
                            [r EXCEPT !.pc = "upstream",
                                      !.calls = <<CHOOSE k \in FirstCall(name, v.value)
                                                    : TRUE>>]]

\* The handler storing whatever the upstream call brought back before it
\* looks at whether the call succeeded.
ToolReturnStoresFirst(c) ==
    LET r == req[c]
        args == validateToolInput(r.name, r.args).value
    IN  /\ r.pc = "upstream" /\ r.kind = "tool" /\ r.name # "nql_get_results"
        /\ UNCHANGED started
        /\ \E resp \in Responses(r.calls[Len(r.calls)], clock + 1) :
             /\ resources' = Stored(resources, r.name, args, resp)
             /\ IF resp.ok
                THEN /\ clock' = clock + 1
                     /\ Finish(c, [r EXCEPT !.resp = resp,
                                            !.before = Addresses(resources)], Result)
                ELSE /\ UNCHANGED clock
                     /\ Finish(c, [r EXCEPT !.resp = resp],
                               IsError(Err("upstream", <<>>, "")))

\* A handler that leaves an entry alone when its address is already taken.
ToolReturnKeepsFirst(c) ==
    LET r == req[c]
        args == validateToolInput(r.name, r.args).value
    IN  /\ r.pc = "upstream" /\ r.kind = "tool" /\ r.name # "nql_get_results"
        /\ UNCHANGED started
        /\ \E resp \in Responses(r.calls[Len(r.calls)], clock + 1) :
             IF resp.ok
             THEN /\ resources' =
                       IF Addresses(Stored(resources, r.name, args, resp))
                             = Addresses(resources)
                       THEN resources
                       ELSE Stored(resources, r.name, args, resp)
                  /\ clock' = clock + 1
                  /\ Finish(c, [r EXCEPT !.resp = resp, !.before = Addresses(resources)],
                            Result)
             ELSE /\ UNCHANGED <<resources, clock>>
                  /\ Finish(c, [r EXCEPT !.resp = resp], IsError(Err("upstream", <<>>, "")))

\* The upstream call of a handler other than handleNqlGetResults returns:
\* on success the handler stores and returns a result, on failure its catch
\* returns a result with isError.
ToolReturn(c) ==
    LET r == req[c]
        args == validateToolInput(r.name, r.args).value
    IN  /\ r.pc = "upstream" /\ r.kind = "tool" /\ r.name # "nql_get_results"
        /\ UNCHANGED started
        /\ \E resp \in Responses(r.calls[Len(r.calls)], clock + 1) :
             IF resp.ok
             THEN /\ resources' = Stored(resources, r.name, args, resp)
                  /\ clock' = clock + 1
                  /\ Finish(c, [r EXCEPT !.resp = resp, !.before = Addresses(resources)],
                            Result)
             ELSE /\ UNCHANGED <<resources, clock>>
                  /\ Finish(c, [r EXCEPT !.resp = resp], IsError(Err("upstream", <<>>, "")))

\* sdk-client getJobResults after its status check: a job that is not
\* completed is an error naming the job and its status; for a completed job
\* the results are asked for.
JobStatusReturn(c) ==
    LET r == req[c]
        args == validateToolInput(r.name, r.args).value
    IN  /\ r.pc = "upstream" /\ r.kind = "tool" /\ r.name = "nql_get_results"
        /\ Len(r.calls) = 1
        /\ UNCHANGED <<resources, started>>
        /\ \E resp \in Responses(r.calls[1], clock + 1) :
             IF ~resp.ok
             THEN /\ UNCHANGED clock
                  /\ Finish(c, [r EXCEPT !.resp = resp], IsError(Err("upstream", <<>>, "")))
             ELSE /\ clock' = clock + 1
                  /\ IF IsCompleted(resp.obj)
                     THEN req' = [req EXCEPT ![c] =
                                    [r EXCEPT !.resp = resp,
                                              !.status = resp.obj.status,
                                              !.calls = Append(r.calls,
                                                  Call("jobs.getResults", args["jobId"].s,
                                                       0, args["resultType"].s))]]
                     ELSE Finish(c, [r EXCEPT !.resp = resp, !.status = resp.obj.status],
                                 IsError(Err("NotCompleted", args["jobId"].s,
                                             resp.obj.status)))

\* A results fetch that is asked for once more when it has failed.
JobResultsReturnRetries(c) ==
    LET r == req[c]
        args == validateToolInput(r.name, r.args).value
    IN  /\ r.pc = "upstream" /\ r.kind = "tool" /\ r.name = "nql_get_results"
        /\ Len(r.calls) = 2
        /\ UNCHANGED started
        /\ \E resp \in Responses(r.calls[2], clock + 1) :
             IF resp.ok
             THEN /\ resources' = Stored(resources, r.name, args, resp)
                  /\ clock' = clock + 1
                  /\ Finish(c, [r EXCEPT !.resp = resp, !.before = Addresses(resources)],
                            Result)
             ELSE /\ UNCHANGED <<resources, clock>>
                  /\ req' = [req EXCEPT ![c] =
                               [r EXCEPT !.resp = resp,
                                         !.calls = Append(r.calls, r.calls[2])]]

\* handleNqlGetResults once getJobResults has returned or thrown.
JobResultsReturn(c) ==
    LET r == req[c]
        args == validateToolInput(r.name, r.args).value
    IN  /\ r.pc = "upstream" /\ r.kind = "tool" /\ r.name = "nql_get_results"
        /\ Len(r.calls) = 2
        /\ UNCHANGED started
        /\ \E resp \in Responses(r.calls[2], clock + 1) :
             IF resp.ok
             THEN /\ resources' = Stored(resources, r.name, args, resp)
                  /\ clock' = clock + 1
                  /\ Finish(c, [r EXCEPT !.resp = resp, !.before = Addresses(resources)],
                            Result)
             ELSE /\ UNCHANGED <<resources, clock>>
                  /\ Finish(c, [r EXCEPT !.resp = resp], IsError(Err("upstream", <<>>, "")))

\* The read handler up to its first suspension (dataset:, access-rule:) or
\* to its end (resource:, any other scheme, a uri new URL rejects).
ReadResource(c) ==
    /\ Free(c)
    /\ started' = started + 1
    /\ UNCHANGED <<resources, clock>>
    /\ \E uri \in ReadURIs :
         LET r == Request("start", "read", "", NoArgs, uri, <<>>, NoResp, {}, NoOutcome)
             url == URLParse(uri)
             id == StripLeadingSlash(url.pathname)
         IN  IF ~url.ok
             THEN Finish(c, r, Thrown("TypeError"))
             ELSE IF url.protocol = DatasetScheme \o Colon
             THEN req' = [req EXCEPT ![c] =
                            [r EXCEPT !.pc = "upstream",
                                      !.calls = <<Call("fetchDatasetById", id, 0, <<>>)>>]]
             ELSE IF url.protocol = AccessRuleScheme \o Colon
             THEN LET accessRuleId == parseInt(id)
                  IN  IF accessRuleId.nan
                      THEN Finish(c, r, McpError("InvalidRequest",
                                                 Err("Invalid access rule ID", id, "")))
                      ELSE req' = [req EXCEPT ![c] =
                                     [r EXCEPT !.pc = "upstream",
                                               !.calls = <<Call("fetchAccessRuleById",
                                                                <<>>, accessRuleId.n,
                                                                <<>>)>>]]
             ELSE IF url.protocol = ResourceScheme \o Colon
             THEN IF getResourceContents(resources, id) = {}
                  THEN Finish(c, [r EXCEPT !.before = Addresses(resources)],
                              McpError("InvalidRequest", Err("Resource not found", id, "")))
                  ELSE Finish(c, [r EXCEPT !.before = Addresses(resources)],
                              Contents(CHOOSE x \in getResourceContents(resources, id)
                                          : TRUE))
             ELSE Finish(c, r, McpError("InvalidRequest",
                                        Err("Unsupported URI scheme", url.protocol, "")))

\* A live fetch that also files what it fetched in the registry.
ReadReturnCaches(c) ==
    LET r == req[c]
    IN  /\ r.pc = "upstream" /\ r.kind = "read"
        /\ UNCHANGED started
        /\ \E resp \in Responses(r.calls[1], clock + 1) :
             IF resp.ok
             THEN /\ clock' = clock + 1
                  /\ resources' = setResource(resources, r.uri,
                                      StoredResource(r.uri, r.uri, JSONStringify(resp.obj),
                                                     <<>>, "application/json"))
                  /\ Finish(c, [r EXCEPT !.resp = resp],
                            Contents([mimeType |-> "application/json",
                                      text |-> JSONStringify(resp.obj)]))
             ELSE /\ UNCHANGED <<resources, clock>>
                  /\ Finish(c, [r EXCEPT !.resp = resp],
                            McpError("InvalidRequest", Err("not found", r.calls[1].s, "")))

\* The live fetch of a dataset: or access-rule: read returns.
ReadReturn(c) ==
    LET r == req[c]
    IN  /\ r.pc = "upstream" /\ r.kind = "read"
        /\ UNCHANGED <<resources, started>>
        /\ \E resp \in Responses(r.calls[1], clock + 1) :
             IF resp.ok
             THEN /\ clock' = clock + 1
                  /\ Finish(c, [r EXCEPT !.resp = resp],
                            Contents([mimeType |-> "application/json",
                                      text |-> JSONStringify(resp.obj)]))
             ELSE /\ UNCHANGED clock
                  /\ Finish(c, [r EXCEPT !.resp = resp],
                            McpError("InvalidRequest", Err("not found", r.calls[1].s, "")))

\* The resource listing.
ListResources(c) ==
    /\ Free(c)
    /\ started' = started + 1
    /\ UNCHANGED <<resources, clock>>
    /\ Finish(c, Request("start", "list", "", NoArgs, <<>>, <<>>, NoResp, {}, NoOutcome),
              Listing("resources", getResourcesForList(resources)))

\* The template listing.
ListResourceTemplates(c) ==
    /\ Free(c)
    /\ started' = started + 1
    /\ UNCHANGED <<resources, clock>>
    /\ Finish(c, Request("start", "templates", "", NoArgs, <<>>, <<>>, NoResp, {},
                         NoOutcome),
              Listing("resourceTemplates", ResourceTemplates))

\* The prompts a caller may ask for and the arguments it may pass.
PromptNames == {"execute-nql", "unknown-prompt"}
PromptArgs == {NoArgs, "query" :> StrV(Q), "query" :> StrV(<<>>)}

PromptContent == <<"nql-execution.md">>
QuerySeparator == <<"QUERY TO VALIDATE/EXECUTE:">>

\* getNqlExecutionPrompt: the prompt file's text, followed by the query
\* when one is given and not empty.
getNqlExecutionPrompt(args) ==
    LET query == IF "query" \in DOMAIN args THEN args["query"].s ELSE <<>>
    IN  PromptContent \o (IF query # <<>> THEN QuerySeparator \o query ELSE <<>>)

\* The prompt listing.
ListPrompts(c) ==
    /\ Free(c)
    /\ started' = started + 1
    /\ UNCHANGED <<resources, clock>>
    /\ Finish(c, Request("start", "prompts", "", NoArgs, <<>>, <<>>, NoResp, {}, NoOutcome),
              Listing("prompts", <<<<"execute-nql">>>>))

\* A prompt request: the one known prompt is built from the prompt file,
\* which readFileSync may fail to read; any other name is a MethodNotFound.
GetPrompt(c) ==
    /\ Free(c)
    /\ started' = started + 1
    /\ UNCHANGED <<resources, clock>>
    /\ \E name \in PromptNames : \E args \in PromptArgs : \E loaded \in BOOLEAN :
         LET r == Request("start", "prompt", name, args, <<>>, <<>>, NoResp, {}, NoOutcome)
         IN  IF name # "execute-nql"
             THEN Finish(c, r, McpError("MethodNotFound", NoErr))
             ELSE IF ~loaded
             THEN Finish(c, r, Thrown("Error"))
             ELSE Finish(c, r, Listing("messages", <<getNqlExecutionPrompt(args)>>))

\* One request at a time, each run to completion.
Worker == "c1"

Next ==
    \/ CallTool(Worker) /\ UNCHANGED sdk
    \/ ToolReturn(Worker) /\ UNCHANGED sdk
    \/ JobStatusReturn(Worker) /\ UNCHANGED sdk
    \/ JobResultsReturn(Worker) /\ UNCHANGED sdk
    \/ ReadResource(Worker) /\ UNCHANGED sdk
    \/ ReadReturn(Worker) /\ UNCHANGED sdk
    \/ ListResources(Worker) /\ UNCHANGED sdk
    \/ ListResourceTemplates(Worker) /\ UNCHANGED sdk
    \/ ListPrompts(Worker) /\ UNCHANGED sdk
    \/ GetPrompt(Worker) /\ UNCHANGED sdk

Spec == Init /\ [][Next]_vars

\* The requests followed when several are in flight: well-formed tool calls
\* that store, reads of what they store, one live re-fetch of each kind, the
\* listings and the prompt.
InFlightTogether(r) ==
    /\ r.kind = "tool" =>
         \/ r.name \in {"list_datasets", "list_access_rules"} /\ r.args = NoArgs
         \/ r.name = "dataset_statistics" /\ r.args = ("dataset_id" :> StrV(<<"1">>))
         \/ r.name = "nql_get_results"
              /\ r.args = ("jobId" :> StrV(Job1)) @@ ("resultType" :> StrV(<<"sample">>))
    /\ r.kind = "read" =>
         r.uri \in {ResourceScheme \o ThreeSlashes \o <<"dataset", "-", "1">>,
                    ResourceScheme \o ThreeSlashes \o <<"dataset", "-", "statistics", "-", "1">>,
                    DatasetScheme \o Colon \o <<"1">>,
                    AccessRuleScheme \o Colon \o <<"6", "7">>}
    /\ r.kind = "prompt" => r.name = "execute-nql" /\ r.args = NoArgs

\* Requests in flight together: the handlers are async functions on one
\* event loop, so another request may run whenever one awaits its upstream
\* call, and each action above is one uninterrupted run between two awaits.
NextConcurrent ==
    \E c \in Clients :
        \/ CallTool(c) /\ InFlightTogether(req'[c]) /\ UNCHANGED sdk
        \/ ToolReturn(c) /\ UNCHANGED sdk
        \/ JobStatusReturn(c) /\ UNCHANGED sdk
        \/ JobResultsReturn(c) /\ UNCHANGED sdk
        \/ ReadResource(c) /\ InFlightTogether(req'[c]) /\ UNCHANGED sdk
        \/ ReadReturn(c) /\ UNCHANGED sdk
        \/ ListResources(c) /\ UNCHANGED sdk
        \/ ListResourceTemplates(c) /\ UNCHANGED sdk
        \/ ListPrompts(c) /\ UNCHANGED sdk
        \/ GetPrompt(c) /\ InFlightTogether(req'[c]) /\ UNCHANGED sdk

SpecConcurrent == Init /\ [][NextConcurrent]_vars

(* ------------------- startup and the SDK client ------------------------ *)

\* config.ts is loaded: export const config = validateEnvironmentVariables().
Startup ==
    /\ ~sdk.started
    /\ sdk' = Booted(sdk)
    /\ UNCHANGED <<resources, req, clock, started>>

\* A caller may begin an operation once the config stands.
CanBegin(c) ==
    /\ sdk.started /\ ~sdk.config.threw
    /\ sdk.op[c].pc \in {"idle", "done"}
    /\ sdk.begun < MaxOperations

\* initializeSDK down to its await: it returns at once when the client has
\* an SDK object, and otherwise waits for the import of the SDK module.
EnterInitializeSDK(p, o) ==
    IF p.sdkInstance # NoInstance
    THEN [o EXCEPT !.pc = "initialized", !.init = "cached"]
    ELSE [o EXCEPT !.pc = "importing"]

\* What executeNql may be called with: by a caller of the client, and by
\* handleNqlExecute with the validated input of a tool call (args).
NqlInputs ==
    {[args |-> NoArgs, query |-> Q, options |-> o] : o \in OptionSets}
    \cup
    {[args |-> a, query |-> validateToolInput("nql_execute", a).value["query"].s,
      options |-> HandlerOptions(validateToolInput("nql_execute", a).value)]
       : a \in {b \in ArgsFor("nql_execute") :
                  validateToolInput("nql_execute", b).threw = "none"}}

\* executeNql down to the await of the import.
executeNql(c) ==
    /\ CanBegin(c)
    /\ \E input \in NqlInputs :
         sdk' = [sdk EXCEPT
                   !.begun = @ + 1,
                   !.op[c] = EnterInitializeSDK(sdk,
                                Operation("start", "executeNql", input.args,
                                          input.query, input.options))]
    /\ UNCHANGED <<resources, req, clock, started>>

\* fetchDatasetStatistics down to the await of the import.
fetchDatasetStatistics(c) ==
    /\ CanBegin(c)
    /\ \E id \in {<<"1">>, <<"abc">>} :
         sdk' = [sdk EXCEPT
                   !.begun = @ + 1,
                   !.op[c] = EnterInitializeSDK(sdk,
                                Operation("start", "fetchDatasetStatistics", NoArgs,
                                          id, NoOptions))]
    /\ UNCHANGED <<resources, req, clock, started>>

\* A construction that puts console.log back only when it succeeds.
ConstructSDKNoFinally(p, ok) ==
    LET originalConsoleLog == p.consoleLog
        suppressed == [p EXCEPT !.consoleLog = "noop"]
    IN  IF ok
        THEN [suppressed EXCEPT
                !.sdkInstance = Instance(p.constructed + 1, p.config.apiToken,
                                         Environment(p.config.apiUrl)),
                !.constructed = @ + 1,
                !.consoleLog = originalConsoleLog]
        ELSE suppressed

\* The block of initializeSDK after the import, which has no await in it:
\* console.log is replaced, new NarrativeApi(...) runs and may throw, and
\* the finally puts console.log back.
ConstructSDK(p, ok) ==
    LET originalConsoleLog == p.consoleLog
        suppressed == [p EXCEPT !.consoleLog = "noop"]
        tried == IF ok
                 THEN [suppressed EXCEPT
                         !.sdkInstance = Instance(p.constructed + 1, p.config.apiToken,
                                                  Environment(p.config.apiUrl)),
                         !.constructed = @ + 1]
                 ELSE suppressed
    IN  [tried EXCEPT !.consoleLog = originalConsoleLog]

\* initializeSDK resumes after the import: the import failed, or the
\* construction block runs; any error becomes 'SDK initialization failed'.
ImportReturns(c) ==
    LET o == sdk.op[c]
        failed(how) == [o EXCEPT !.pc = "done", !.init = how,
                                 !.threw = "SDK initialization failed"]
    IN  /\ o.pc = "importing"
        /\ \/ sdk' = [sdk EXCEPT !.op[c] = failed("import failed")]
           \/ sdk' = [ConstructSDK(sdk, FALSE) EXCEPT
                        !.op[c] = failed("constructor threw")]
           \/ sdk' = [ConstructSDK(sdk, TRUE) EXCEPT
                        !.op[c] = [o EXCEPT !.pc = "initialized", !.init = "constructed"]]
        /\ UNCHANGED <<resources, req, clock, started>>

\* getSDKInstance resumes after initializeSDK and returns this.sdkInstance
\* as it is then; the operation goes on to its call on that object.
getSDKInstance(c) ==
    LET o == sdk.op[c]
        on == sdk.sdkInstance.id
        datasetId == parseInt(o.query)
    IN  /\ o.pc = "initialized"
        /\ sdk' = [sdk EXCEPT !.op[c] =
                     IF o.operation = "executeNql"
                     THEN [o EXCEPT !.pc = "calling", !.on = on,
                                    !.sent = <<SdkCall(on, "nql.execute", o.query, 0,
                                                       ExecuteOptions(o.options))>>]
                     ELSE IF datasetId.nan
                     THEN [o EXCEPT !.pc = "done", !.on = on,
                                    !.threw = "Invalid dataset ID"]
                     ELSE [o EXCEPT !.pc = "calling", !.on = on,
                                    !.sent = <<SdkCall(on, "getStatistics", <<>>,
                                                       datasetId.n, NoFlags)>>]]
        /\ UNCHANGED <<resources, req, clock, started>>

\* The call on the SDK object returns or throws; the operation returns what
\* it was given or lets the error through.
SdkReturns(c) ==
    LET o == sdk.op[c]
        call == o.sent[Len(o.sent)]
    IN  /\ o.pc = "calling"
        /\ \E resp \in Responses(Call(call.op, call.s, call.n, <<>>), sdk.begun) :
             sdk' = [sdk EXCEPT !.op[c] =
                       IF resp.ok
                       THEN [o EXCEPT !.pc = "done", !.resp = resp, !.result = resp.obj]
                       ELSE [o EXCEPT !.pc = "done", !.resp = resp, !.threw = "upstream"]]
        /\ UNCHANGED <<resources, req, clock, started>>

InitSdk ==
    /\ resources = <<>>
    /\ clock = 0
    /\ started = 0
    /\ req = [c \in Clients |-> Idle]
    /\ sdk \in {Process(env) : env \in Environments}

\* The operations of the one SDK client run on one event loop: another
\* caller may run whenever one awaits the import or its SDK call.
NextSdk ==
    \/ Startup
    \/ \E c \in Clients :
          \/ executeNql(c)
          \/ fetchDatasetStatistics(c)
          \/ ImportReturns(c)
          \/ getSDKInstance(c)
          \/ SdkReturns(c)

SpecSdk == InitSdk /\ [][NextSdk]_vars

(* ------------------------------- claims -------------------------------- *)

W == req[Worker]

\* The step of client c in which a tool handler resumes after its upstream
\* call and returns a normal result.
ReturnsResult(c) ==
    /\ req[c].pc = "upstream"
    /\ req'[c].pc = "done"
    /\ req'[c].kind = "tool"
    /\ req'[c].outcome.kind = "result"

\* The last record of a batch that carries the identifier of record k.
LastWithId(recs, k) ==
    recs[CHOOSE i \in 1..Len(recs) :
           /\ recs[i].n = recs[k].n
           /\ \A j \in (i + 1)..Len(recs) : recs[j].n # recs[k].n]

\* The address "<kind>-<id>" of a record a listing tool returns.
ListedAddress(toolName, record) ==
    CASE toolName = "list_datasets" -> <<"dataset", "-">> \o record.s
      [] toolName = "search_attributes" -> <<"attribute", "-">> \o NumToStr(record.n)
      [] toolName \in {"list_access_rules", "search_access_rules"} ->
           <<"access", "-", "rule", "-">> \o NumToStr(record.n)

StatisticsAddress(r) == <<"dataset", "-", "statistics", "-">> \o r.args["dataset_id"].s

\* C1: when a tool stores an entry, whether or not its address was already
\* in the registry, the registry afterwards holds exactly one entry for each
\* address, and the entry at the stored address carries the payload of this
\* invocation's upstream response only (for a batch: of the last record with
\* that id), nothing of an earlier entry.
C1_OverwriteKeepsNewest ==
    [][\A c \in Clients :
         ReturnsResult(c) =>
           LET r == req'[c]
               reg == resources'
           IN  /\ \A a \in Addresses(reg) :
                    Cardinality({i \in 1..Len(reg) : reg[i].id = a}) = 1
               /\ r.name = "dataset_statistics" =>
                    /\ Cardinality(Lookup(reg, StatisticsAddress(r))) = 1
                    /\ \A e \in Lookup(reg, StatisticsAddress(r)) :
                         e.content = JSONStringify(r.resp.obj)
               /\ r.name \in ListingTools =>
                    \A k \in 1..Len(r.resp.recs) :
                      /\ Cardinality(Lookup(reg, ListedAddress(r.name, r.resp.recs[k]))) = 1
                      /\ \A e \in Lookup(reg, ListedAddress(r.name, r.resp.recs[k])) :
                           e.content = JSONStringify(LastWithId(r.resp.recs, k))
      ]_vars

\* C1 witness: dataset_statistics has returned a result for a dataset whose
\* statistics address the registry already held, and the entry there now
\* carries this invocation's response.
C1_Witness ==
    /\ W.pc = "done" /\ W.name = "dataset_statistics" /\ W.outcome.kind = "result"
    /\ StatisticsAddress(W) \in W.before
    /\ \E e \in Lookup(resources, StatisticsAddress(W)) :
         e.content.json.nonce = W.resp.obj.nonce /\ W.resp.obj.nonce > 1

DistinctIds(recs) ==
    \A i, j \in 1..Len(recs) : recs[i].n = recs[j].n => i = j

\* C2: when a listing tool returns a result on an empty registry and the
\* upstream records have distinct ids, list() afterwards is exactly the
\* addresses "<kind>-<id>" of the records, one per record, in upstream order.
C2_ListingFromEmpty ==
    [][\A c \in Clients :
         (/\ ReturnsResult(c)
          /\ req'[c].name \in ListingTools
          /\ resources = <<>>
          /\ DistinctIds(req'[c].resp.recs))
         => getResourcesForList(resources') =
              [i \in 1..Len(req'[c].resp.recs) |->
                 ListedAddress(req'[c].name, req'[c].resp.recs[i])]
      ]_vars

\* C2 witness: list_datasets has returned three records with distinct ids on
\* an empty registry, and the registry now lists three addresses.
C2_Witness ==
    /\ W.pc = "done" /\ W.name = "list_datasets" /\ W.outcome.kind = "result"
    /\ W.before = {}
    /\ Len(W.resp.recs) = 3 /\ DistinctIds(W.resp.recs)
    /\ getResourcesForList(resources) =
         <<<<"dataset", "-", "1">>, <<"dataset", "-", "2">>,
           <<"dataset", "-", "6", "7">>>>

\* A finished read of the given uri.
HasRead(uri) == W.pc = "done" /\ W.kind = "read" /\ W.uri = uri

\* What a read returns when it serves the entry stored at an address.
ServesStored(a) ==
    /\ W.calls = <<>>
    /\ \E e \in Lookup(resources, a) :
         W.outcome = Contents([mimeType |-> e.mimeType, text |-> e.content])

PathSafe(a) == \A i \in 1..Len(a) : a[i] # " "

Separators == {Colon, TwoSlashes}
WrittenIds == {<<>>, <<"1">>, <<"6", "7">>, <<"abc">>, <<"6", "7", "abc">>}

AllDigits(id) == id # <<>> /\ \A i \in 1..Len(id) : IsDigit(id[i])

\* C4: a read of access-rule://N for a numeric N always makes one live
\* upstream fetch of the access rule with id N.
C4_AccessRuleReadFetches ==
    \A id \in WrittenIds :
        (AllDigits(id) /\ HasRead(AccessRuleScheme \o TwoSlashes \o id))
        => W.calls = <<Call("fetchAccessRuleById", <<>>, DigitsToNum(id, 0), <<>>)>>

\* The scheme of a uri: what stands before its first colon.
HasScheme(uri, scheme) ==
    Len(uri) > Len(scheme) /\ SubSeq(uri, 1, Len(scheme) + 1) = scheme \o Colon

Recognised(uri) ==
    \E scheme \in {DatasetScheme, AccessRuleScheme, ResourceScheme} : HasScheme(uri, scheme)

\* C5: a read of any address without a recognised scheme, a bare string such
\* as dataset-1 included, fails with the unsupported-scheme error and makes
\* no upstream call.
C5_UnrecognisedSchemeUnsupported ==
    (W.kind = "read" /\ W.pc # "start" /\ ~Recognised(W.uri))
    => /\ W.pc = "done"
       /\ W.outcome.kind = "McpError"
       /\ W.outcome.err.tag = "Unsupported URI scheme"
       /\ W.calls = <<>>

\* C6: a dataset read whose identifier is empty or not a dataset id makes no
\* upstream call at all and fails with an invalid-identifier error.
C6_DatasetReadValidatesId ==
    \A sep \in Separators : \A id \in WrittenIds :
        (/\ W.kind = "read" /\ W.pc # "start"
         /\ W.uri = DatasetScheme \o sep \o id
         /\ ~AllDigits(id))
        => /\ W.calls = <<>>
           /\ W.pc = "done"
           /\ W.outcome.kind = "McpError"

\* C7: an access-rule read whose identifier is not a well-formed number fails
\* with an invalid-identifier error before any upstream call, and an upstream
\* call is only ever made with the id written in the address.
C7_AccessRuleReadValidatesId ==
    \A sep \in Separators : \A id \in WrittenIds :
        (/\ W.kind = "read" /\ W.pc # "start"
         /\ W.uri = AccessRuleScheme \o sep \o id)
        => /\ \A i \in 1..Len(W.calls) : NumToStr(W.calls[i].n) = id
           /\ ~AllDigits(id) =>
                /\ W.calls = <<>>
                /\ W.pc = "done"
                /\ W.outcome.kind = "McpError"
                /\ W.outcome.err.tag = "Invalid access rule ID"

\* C8: getJobResults asks for the job's status first; a job that is not
\* completed ends in an error naming the job id and its status without the
\* results ever being asked for; the results are asked for, with the same
\* job id and result type, only after status completed was seen.
C8_ResultsOnlyAfterCompleted ==
    \A c \in Clients :
        LET r == req[c]
            args == validateToolInput(r.name, r.args).value
        IN  (r.kind = "tool" /\ r.name = "nql_get_results" /\ r.calls # <<>>)
            => /\ r.calls[1] = Call("jobs.getStatus", args["jobId"].s, 0, <<>>)
               /\ Len(r.calls) <= 2
               /\ Len(r.calls) = 2 =>
                    /\ r.status = "completed"
                    /\ r.calls[2] = Call("jobs.getResults", args["jobId"].s, 0,
                                         args["resultType"].s)
               /\ r.status \notin {"", "completed"} =>
                    /\ Len(r.calls) = 1
                    /\ r.pc = "done"
                    /\ r.outcome = IsError(Err("NotCompleted", args["jobId"].s, r.status))

\* C8 witness: nql_get_results has ended for a job the status call reported
\* as running, with the error naming the job and that status and one call.
C8_Witness ==
    /\ W.pc = "done" /\ W.name = "nql_get_results"
    /\ W.status = "running"
    /\ W.outcome = IsError(Err("NotCompleted", Job1, "running"))
    /\ Len(W.calls) = 1

\* C9: a call of a known tool with arguments that violate its declared input
\* shape ends at once in a protocol error with code InvalidParams, with no
\* upstream call made and the registry unchanged.
C9_InvalidArgumentsRejected ==
    [][\A c \in Clients :
         (/\ req[c].pc \in {"idle", "done"}
          /\ req'[c].kind = "tool"
          /\ req'[c].pc \in {"upstream", "done"}
          /\ req'[c].name \in getAllTools
          /\ ~ConformsToDeclared(req'[c].name, req'[c].args))
         => /\ req'[c].pc = "done"
            /\ req'[c].outcome = McpError("InvalidParams", NoErr)
            /\ req'[c].calls = <<>>
            /\ resources' = resources
      ]_vars

\* C9 witness: search_attributes called with perPage 101, above the declared
\* maximum of 100, on a registry that holds entries, has ended in InvalidParams.
C9_Witness ==
    /\ W.pc = "done" /\ W.name = "search_attributes"
    /\ "perPage" \in DOMAIN W.args /\ W.args["perPage"] = NumV(101)
    /\ ~ConformsToDeclared(W.name, W.args)
    /\ W.outcome = McpError("InvalidParams", NoErr)
    /\ W.calls = <<>>
    /\ resources # <<>>

\* A tool request is malformed when the tool is unknown or its arguments
\* fail validation.
Malformed(r) ==
    r.name \notin getAllTools \/ validateToolInput(r.name, r.args).threw # "none"

\* A well-formed tool request has failed after validation when its upstream
\* call failed, its job was not completed, or its handler refused the id.
FailedAfterValidation(r) ==
    /\ ~Malformed(r)
    /\ \/ r.calls # <<>> /\ ~r.resp.ok
       \/ r.status \notin {"", "completed"}
       \/ r.calls = <<>> /\ r.name # "echo"

\* C10: every finished tool invocation has exactly one of three outcomes: a
\* normal result, a result with isError, or a typed protocol error; isError
\* occurs exactly when a failure happens after validation and the typed
\* protocol error exactly when the request is malformed.
C10_ThreeOutcomes ==
    (W.kind = "tool" /\ W.pc = "done")
    => /\ W.outcome.kind \in {"result", "isError", "McpError"}
       /\ W.outcome.kind = "McpError" <=> Malformed(W)
       /\ W.outcome.kind = "isError" <=> FailedAfterValidation(W)

\* C11: a finished invocation of a tool that is not registered has ended in
\* the typed method-not-found protocol error, with no upstream call made.
C11_UnknownToolMethodNotFound ==
    (W.kind = "tool" /\ W.pc = "done" /\ W.name \notin getAllTools)
    => /\ W.outcome = McpError("MethodNotFound", NoErr)
       /\ W.calls = <<>>

\* C12: no step of a tool invocation that does not end in a normal result
\* changes the registry; in particular an invocation whose upstream call
\* (for nql_get_results: the status check or the results fetch) fails leaves
\* the registry exactly as it was.
C12_FailureLeavesRegistry ==
    [][\A c \in Clients :
         (/\ req'[c] # req[c]
          /\ req'[c].kind = "tool"
          /\ req'[c].outcome.kind # "result")
         => resources' = resources
      ]_vars

\* C12 witness: dataset_statistics has ended in isError after its upstream
\* call failed, on a registry that already holds entries.
C12_Witness ==
    /\ W.pc = "done" /\ W.kind = "tool" /\ W.name = "dataset_statistics"
    /\ Len(W.calls) = 1 /\ ~W.resp.ok
    /\ W.outcome = IsError(Err("upstream", <<>>, ""))
    /\ resources # <<>>

NqlJobAddress(r) == <<"nql", "-", "job", "-">> \o r.resp.obj.s

\* C13: when nql_execute returns a result for an upstream response with job
\* id J and status submitted, the registry holds exactly one entry at
\* nql-job-J whose payload carries J, the submitted query and the returned
\* status, and every other address holds what it held before.
C13_NqlExecuteStoresJob ==
    [][\A c \in Clients :
         (/\ ReturnsResult(c)
          /\ req'[c].name = "nql_execute"
          /\ req'[c].resp.obj.status = "submitted")
         => LET r == req'[c]
                query == validateToolInput(r.name, r.args).value["query"].s
            IN  /\ Cardinality({i \in 1..Len(resources') :
                                  resources'[i].id = NqlJobAddress(r)}) = 1
                /\ \A e \in Lookup(resources', NqlJobAddress(r)) :
                     /\ e.content.json.s = r.resp.obj.s
                     /\ e.content.json.query = query
                     /\ e.content.json.status = "submitted"
                /\ Addresses(resources') = Addresses(resources) \cup {NqlJobAddress(r)}
                /\ \A a \in Addresses(resources) \ {NqlJobAddress(r)} :
                     Lookup(resources', a) = Lookup(resources, a)
      ]_vars

\* C13 witness: nql_execute has returned a result for job_1 on a registry
\* that held other entries, and nql-job-job_1 now carries job_1 and the query.
C13_Witness ==
    /\ W.pc = "done" /\ W.name = "nql_execute" /\ W.outcome.kind = "result"
    /\ W.resp.obj.s = Job1 /\ W.resp.obj.status = "submitted"
    /\ W.before # {}
    /\ \E e \in Lookup(resources, <<"nql", "-", "job", "-">> \o Job1) :
         e.content.json.s = Job1 /\ e.content.json.query = Q

\* C14: the registry starts empty and no step removes an address: the
\* addresses stored after any step include those stored before it.
C14_RegistryOnlyGrows ==
    /\ resources = <<>>
    /\ [][Addresses(resources) \subseteq Addresses(resources')]_vars

\* C14 witness: a listing has returned on a registry that already held
\* entries; all of them are still stored and new ones have been added.
C14_Witness ==
    /\ W.pc = "done" /\ W.name \in ListingTools /\ W.outcome.kind = "result"
    /\ W.before # {}
    /\ W.before \subseteq Addresses(resources)
    /\ W.before # Addresses(resources)

\* C15: every step of a resource read, a resource listing, a template
\* listing, a prompt listing or a prompt request leaves the registry as it
\* was; only steps of tool invocations change it.
C15_OnlyToolsWrite ==
    [][\A c \in Clients :
         (/\ req'[c] # req[c]
          /\ req'[c].kind \in {"read", "list", "templates", "prompts", "prompt"})
         => resources' = resources
      ]_vars

\* C15 witness: a live re-fetch of dataset:1 has returned the dataset on a
\* registry that holds other entries, and nothing was stored for it.
C15_Witness ==
    /\ HasRead(DatasetScheme \o Colon \o <<"1">>)
    /\ W.outcome.kind = "contents"
    /\ Len(W.calls) = 1
    /\ resources # <<>>
    /\ <<"dataset", "-", "1">> \notin Addresses(resources)

StatisticsOne == "dataset_id" :> StrV(<<"1">>)
SampleOfJob1 == ("jobId" :> StrV(Job1)) @@ ("resultType" :> StrV(<<"sample">>))

\* The whole entries a single put with the given payload makes.
SingleWrites(obj) ==
    {BatchEntry("dataset", obj), BatchEntry("access-rule", obj),
     HandlerResource("dataset_statistics", StatisticsOne, obj),
     HandlerResource("nql_get_results", SampleOfJob1, obj)}

\* Two finished requests that were in flight together: each began before
\* the other's upstream answer arrived.
RespNonce(r) ==
    IF r.resp.recs # <<>> THEN r.resp.recs[1].nonce ELSE r.resp.obj.nonce

Overlapped(r, q) == r.at < RespNonce(q) /\ q.at < RespNonce(r)

WroteStatistics(r) ==
    r.pc = "done" /\ r.name = "dataset_statistics" /\ r.outcome.kind = "result"

\* C16: with requests interleaving at their upstream awaits, every entry in
\* the registry, and every payload a registry read has returned, is the
\* whole entry of a single put; a put leaves exactly the writer's entry at
\* its address; and when two writers to one address have finished, the
\* address holds the whole entry of the one whose put ran last.
C16_WholeEntriesLastPutWins ==
    /\ [](/\ \A i \in 1..Len(resources) :
               resources[i] \in SingleWrites(resources[i].content.json)
          /\ \A c \in Clients :
               (req[c].pc = "done" /\ req[c].kind = "read"
                  /\ req[c].calls = <<>> /\ req[c].outcome.kind = "contents")
               => \E e \in SingleWrites(req[c].outcome.text.json) :
                    /\ ResourceScheme \o ThreeSlashes \o e.id = req[c].uri
                    /\ e.content = req[c].outcome.text
                    /\ e.mimeType = req[c].outcome.code
          /\ \A c, d \in Clients :
               (c # d /\ WroteStatistics(req[c]) /\ WroteStatistics(req[d])
                  /\ req[c].resp.obj.nonce > req[d].resp.obj.nonce)
               => Lookup(resources, StatisticsAddress(req[c])) =
                    {HandlerResource("dataset_statistics", req[c].args, req[c].resp.obj)})
    /\ [][\A c \in Clients :
            (ReturnsResult(c) /\ req'[c].name \notin ListingTools)
            => Lookup(resources', HandlerResource(req'[c].name, req'[c].args,
                                                  req'[c].resp.obj).id)
                 = {HandlerResource(req'[c].name, req'[c].args, req'[c].resp.obj)}
       ]_vars

\* C16 witness: two dataset_statistics calls for the same dataset were in
\* flight together, both have finished, and the address holds the whole
\* entry of c1, whose put ran last although c2's ran first.
C16_Witness ==
    /\ WroteStatistics(req["c1"]) /\ WroteStatistics(req["c2"])
    /\ Overlapped(req["c1"], req["c2"])
    /\ req["c1"].resp.obj.nonce > req["c2"].resp.obj.nonce
    /\ StatisticsAddress(req["c1"]) \in req["c1"].before
    /\ Lookup(resources, StatisticsAddress(req["c1"])) =
         {HandlerResource("dataset_statistics", StatisticsOne, req["c1"].resp.obj)}

\* The addresses a finished listing call has inserted.
BatchAddresses(r) ==
    {ListedAddress(r.name, r.resp.recs[k]) : k \in 1..Len(r.resp.recs)}

Listed(r) == r.pc = "done" /\ r.name \in ListingTools /\ r.outcome.kind = "result"

\* C17: the registry changes only in the step in which a tool handler
\* resumes after its last upstream call and returns; that one step inserts
\* the whole batch; and a request whose own put ran after a listing's batch
\* found every address of that batch in the registry.
C17_WritesAfterUpstreamInOneStep ==
    /\ [][/\ resources' # resources => \E c \in Clients : ReturnsResult(c)
          /\ \A c \in Clients :
               (ReturnsResult(c) /\ req'[c].name \in ListingTools)
               => /\ req[c].calls # <<>>
                  /\ BatchAddresses(req'[c]) \subseteq Addresses(resources')
                  /\ Addresses(resources') = Addresses(resources) \cup BatchAddresses(req'[c])
       ]_vars
    /\ [](\A c, d \in Clients :
            (/\ c # d /\ Listed(req[c])
             /\ req[d].pc = "done" /\ req[d].kind = "tool" /\ req[d].outcome.kind = "result"
             /\ req[c].resp.recs # <<>>
             /\ RespNonce(req[c]) < RespNonce(req[d]))
            => BatchAddresses(req[c]) \subseteq req[d].before)

\* C17 witness: list_datasets (c1) and dataset_statistics (c2) were in
\* flight together; the listing's three records went in first, and the
\* statistics put then found all three addresses in the registry.
C17_Witness ==
    /\ Listed(req["c1"]) /\ req["c1"].name = "list_datasets"
    /\ Len(req["c1"].resp.recs) = 3
    /\ WroteStatistics(req["c2"])
    /\ Overlapped(req["c1"], req["c2"])
    /\ RespNonce(req["c1"]) < RespNonce(req["c2"])
    /\ req["c2"].before = BatchAddresses(req["c1"])
    /\ Cardinality(req["c2"].before) = 3

\* C18: within one request each upstream operation is called at most once,
\* and the step in which an upstream call fails ends the request with an
\* error, with no further upstream call made.
C18_NoRetry ==
    /\ [](\A c \in Clients : \A i, j \in 1..Len(req[c].calls) :
            req[c].calls[i].op = req[c].calls[j].op => i = j)
    /\ [][\A c \in Clients :
            (req[c].pc = "upstream" /\ req'[c] # req[c] /\ ~req'[c].resp.ok)
            => /\ req'[c].pc = "done"
               /\ req'[c].calls = req[c].calls
               /\ req'[c].outcome.kind \in {"isError", "McpError"}
       ]_vars

\* C18 witness: nql_get_results has ended in isError after its results fetch
\* failed, with the status check and the results fetch each called once.
C18_Witness ==
    /\ W.pc = "done" /\ W.name = "nql_get_results"
    /\ Len(W.calls) = 2 /\ W.status = "completed"
    /\ W.calls[2].op = "jobs.getResults"
    /\ ~W.resp.ok
    /\ W.outcome = IsError(Err("upstream", <<>>, ""))

\* C19: a finished resource read that did not return contents has ended in
\* a typed protocol error with code InvalidRequest, never in InvalidParams
\* and never in an untyped exception.
C19_FailedReadsTyped ==
    (W.kind = "read" /\ W.pc = "done" /\ W.outcome.kind # "contents")
    => /\ W.outcome.kind = "McpError"
       /\ W.outcome.code = "InvalidRequest"

\* What a read of resource:///a returns from the registry as it stands:
\* the handler's URL parse, its strip of the leading slash and its lookup.
ReadBack(reg, a) ==
    LET url == URLParse(ResourceScheme \o ThreeSlashes \o a)
    IN  IF url.ok
        THEN getResourceContents(reg, StripLeadingSlash(url.pathname))
        ELSE {}

\* C20: in every state the resource listing has exactly one item per entry
\* of the registry, none twice, and every listed address read back through a
\* resource read returns the payload stored there.
C20_ListedAndReadable ==
    /\ Cardinality(Addresses(resources)) = Len(resources)
    /\ Len(getResourcesForList(resources)) = Len(resources)
    /\ (W.pc = "done" /\ W.kind = "list")
         => W.outcome.list = [i \in 1..Len(resources) |-> resources[i].id]
    /\ \A i \in 1..Len(resources) :
         ReadBack(resources, getResourcesForList(resources)[i]) =
           {[mimeType |-> resources[i].mimeType, text |-> resources[i].content]}

\* The scheme of a uri that has a colon: what stands before the first one.
UriScheme(u) ==
    SubSeq(u, 1, (CHOOSE k \in 1..Len(u) :
                    u[k] = ":" /\ \A j \in 1..(k - 1) : u[j] # ":") - 1)

\* The template table has a pattern with the scheme of the uri.
HasTemplate(table, u) ==
    \E i \in 1..Len(table) : UriScheme(table[i]) = UriScheme(u)

\* A finished read of a well-formed uri whose scheme the handler dispatched.
ReadOfAcceptedScheme ==
    /\ W.kind = "read" /\ W.pc = "done" /\ URLParse(W.uri).ok
    /\ W.outcome.err.tag # "Unsupported URI scheme"

ReadOfRejectedScheme ==
    /\ W.kind = "read" /\ W.pc = "done" /\ URLParse(W.uri).ok
    /\ W.outcome.err.tag = "Unsupported URI scheme"

\* C21 as stated: the template listing returns the static table, and the
\* table has a pattern for every scheme the read handler accepts and for no
\* scheme it rejects.
C21_TemplatesCoverAccepted ==
    /\ (W.kind = "templates" /\ W.pc = "done")
         => W.outcome = Listing("resourceTemplates", ResourceTemplates)
    /\ ReadOfAcceptedScheme => HasTemplate(ResourceTemplates, W.uri)
    /\ ReadOfRejectedScheme => ~HasTemplate(ResourceTemplates, W.uri)

\* C21 amended: the template listing returns the same two patterns,
\* dataset://{id} and access-rule://{id}, whatever the registry holds; the
\* table has a pattern for the dataset and access-rule schemes, none for a
\* scheme the read handler rejects, and none for the resource scheme, which
\* the read handler accepts.
C21_TemplatesCoverRefetchSchemes ==
    /\ (W.kind = "templates" /\ W.pc = "done")
         => W.outcome.list = <<DatasetScheme \o TwoSlashes \o <<"{id}">>,
                               AccessRuleScheme \o TwoSlashes \o <<"{id}">>>>
    /\ ReadOfAcceptedScheme
         => (HasTemplate(ResourceTemplates, W.uri) <=> UriScheme(W.uri) # ResourceScheme)
    /\ ReadOfRejectedScheme => ~HasTemplate(ResourceTemplates, W.uri)

\* C21 witness: the template listing has returned its two patterns on a
\* registry that holds entries.
C21_Witness ==
    /\ W.kind = "templates" /\ W.pc = "done"
    /\ Len(W.outcome.list) = 2
    /\ resources # <<>>

\* The two optional flags of nql_execute.
NqlFlags == {"generateSample", "generateStats"}

\* An nql_execute input whose query is a string that is non-empty once
\* trimmed and whose flags, where given, are booleans.
NqlExecuteAcceptable(a) ==
    /\ "query" \in DOMAIN a
    /\ a["query"].t = "string"
    /\ Trim(a["query"].s) # <<>>
    /\ \A f \in NqlFlags \cap DOMAIN a : a[f].t = "boolean"

\* C23: validation of nql_execute input accepts exactly the inputs whose
\* query is a string that is non-empty after trimming and whose flags, when
\* present, are booleans; the validated input carries the trimmed query, the
\* flags as given and true for each omitted flag, and the handler goes
\* upstream with the trimmed query; every other input is rejected with
\* InvalidParams before any upstream call.
C23_NqlExecuteValidation ==
    (W.kind = "tool" /\ W.name = "nql_execute")
    => LET v == validateToolInput(W.name, W.args)
       IN  IF NqlExecuteAcceptable(W.args)
           THEN /\ v.threw = "none"
                /\ DOMAIN v.value = {"query"} \cup NqlFlags
                /\ v.value["query"] = StrV(Trim(W.args["query"].s))
                /\ \A f \in NqlFlags :
                     v.value[f] = IF f \in DOMAIN W.args THEN W.args[f] ELSE BoolV(TRUE)
                /\ W.outcome # McpError("InvalidParams", NoErr)
                /\ W.calls # <<>>
                /\ W.calls[1].s = Trim(W.args["query"].s)
           ELSE /\ v.threw = "ZodError"
                /\ W.pc = "done"
                /\ W.outcome = McpError("InvalidParams", NoErr)
                /\ W.calls = <<>>

\* C23 witness: nql_execute called with a query padded with spaces and no
\* flags has gone upstream with the trimmed query.
C23_Witness ==
    /\ W.kind = "tool" /\ W.name = "nql_execute"
    /\ W.args = ("query" :> StrV(<<" ">> \o Q \o <<" ">>))
    /\ W.calls # <<>> /\ W.calls[1].s = Q
    /\ validateToolInput(W.name, W.args).value["generateSample"] = BoolV(TRUE)

\* An nql_get_results input whose jobId is a string that is non-empty once
\* trimmed and whose resultType is one of the two listed strings.
NqlGetResultsAcceptable(a) ==
    /\ "jobId" \in DOMAIN a
    /\ a["jobId"].t = "string"
    /\ Trim(a["jobId"].s) # <<>>
    /\ "resultType" \in DOMAIN a
    /\ a["resultType"] \in {StrV(<<"sample">>), StrV(<<"statistics">>)}

\* C24: validation of nql_get_results input accepts exactly the inputs whose
\* jobId is a string that is non-empty after trimming and whose resultType is
\* "sample" or "statistics"; the validated input carries the trimmed jobId
\* and the resultType unchanged, and the handler asks for the status of the
\* trimmed jobId; every other input is rejected with InvalidParams before
\* any upstream call.
C24_NqlGetResultsValidation ==
    (W.kind = "tool" /\ W.name = "nql_get_results")
    => LET v == validateToolInput(W.name, W.args)
       IN  IF NqlGetResultsAcceptable(W.args)
           THEN /\ v.threw = "none"
                /\ v.value = ("jobId" :> StrV(Trim(W.args["jobId"].s)))
                               @@ ("resultType" :> W.args["resultType"])
                /\ W.outcome # McpError("InvalidParams", NoErr)
                /\ W.calls # <<>>
                /\ W.calls[1].s = Trim(W.args["jobId"].s)
           ELSE /\ v.threw = "ZodError"
                /\ W.pc = "done"
                /\ W.outcome = McpError("InvalidParams", NoErr)
                /\ W.calls = <<>>

\* C24 witness: nql_get_results called with a jobId padded with spaces and
\* the result type "sample" has asked for the status of the trimmed id.
C24_Witness ==
    /\ W.kind = "tool" /\ W.name = "nql_get_results"
    /\ DOMAIN W.args = {"jobId", "resultType"}
    /\ W.args["resultType"] = StrV(<<"sample">>)
    /\ W.args["jobId"].s = <<" ">> \o Job1 \o <<" ">>
    /\ W.calls # <<>> /\ W.calls[1].s = Job1

\* The names validateToolInput has a validator for.
ValidatedTools == {n \in ToolNames \cup HandledTools : ValidatorOf(n) # {}}

\* A tool request has reached its handler when it went upstream or ended in
\* what a handler returns: a normal result or a result with isError.
ReachedHandler(r) ==
    r.calls # <<>> \/ (r.pc = "done" /\ r.outcome.kind \in {"result", "isError"})

\* C29: the names getAllTools lists, the names validateToolInput has a
\* validator for and the names the tool-call handler dispatches are the same
\* set; a call of a listed tool with valid arguments reaches its handler, and
\* a call of an unlisted name reaches none.
C29_ToolTablesAgree ==
    /\ getAllTools = ValidatedTools
    /\ getAllTools = HandledTools
    /\ (W.kind = "tool" /\ W.name \in getAllTools
          /\ validateToolInput(W.name, W.args).threw = "none")
         => ReachedHandler(W)
    /\ (W.kind = "tool" /\ W.name \notin getAllTools) => ~ReachedHandler(W)

\* C29 witness: dataset_sample, a listed tool, called with valid arguments
\* has returned its handler's result.
C29_Witness ==
    /\ W.kind = "tool" /\ W.name = "dataset_sample" /\ W.pc = "done"
    /\ validateToolInput(W.name, W.args).threw = "none"
    /\ W.outcome = Result

\* The kind of an entry: what its payload is the text of.
EntryKind(e) == e.content.json.type

\* C28: address construction is injective across kinds, so an entry of one
\* kind is never overwritten by an entry of another kind: whenever a step
\* replaces the entry at an address, the new entry has the kind of the old.
C28_KindsNeverCollide ==
    [][\A i \in 1..Len(resources) :
         resources'[i] # resources[i]
         => EntryKind(resources'[i]) = EntryKind(resources[i])
      ]_vars

\* The tools that store one item and print one link to it.
ItemTools == {"dataset_statistics", "dataset_sample", "nql_execute", "nql_get_results"}

\* The live fetch a link to a listed record stands for.
FetchOfRecord(kind, record) ==
    CASE kind = "dataset" -> Call("fetchDatasetById", record.s, 0, <<>>)
      [] kind = "access-rule" -> Call("fetchAccessRuleById", <<>>, record.n, <<>>)

\* C27: every resource URI a successful tool response prints as a
\* "Resource:" link is accepted by the read handler and resolves to the item
\* the tool produced: a finished read of the link of a stored statistics,
\* sample, job or results entry returns that entry, and a finished read of
\* the link of a listed dataset or access rule has fetched that record.
C27_PrintedLinksResolve ==
    (W.kind = "read" /\ W.pc = "done")
    => /\ \A t \in ItemTools : \A a \in ArgsFor(t) : \A j \in JobIds :
            LET v == validateToolInput(t, a)
                job == Obj("job", j, 0, 0, <<>>, "")
            IN  (/\ v.threw = "none"
                 /\ HandlerResource(t, v.value, job).id \in Addresses(resources)
                 /\ W.uri = ResourceLink(t, v.value, job))
                => /\ W.outcome.kind = "contents"
                   /\ \E e \in Lookup(resources, HandlerResource(t, v.value, job).id) :
                        W.outcome.text = e.content
       /\ \A i \in 1..Len(resources) :
            LET record == resources[i].content.json
            IN  (/\ record.type \in {"dataset", "access-rule"}
                 /\ W.uri = RecordLink(record.type, record))
                => W.calls = <<FetchOfRecord(record.type, record)>>

\* A setting is present when it is set to a string that is not empty.
Present(v) == v # Unset /\ v # Set(<<>>)

\* The required settings the environment lacks.
MissingSettings(env) ==
    {RequiredVariables[i] : i \in {j \in 1..Len(RequiredVariables) :
                                     ~Present(env[RequiredVariables[j]])}}

\* The required settings a message names.
NamedIn(message) ==
    {RequiredVariables[i] : i \in {j \in 1..Len(RequiredVariables) :
                                     \E k \in 1..Len(message) :
                                        message[k] = RequiredVariables[j]}}

HasExecuted(o) ==
    /\ o.operation = "executeNql"
    /\ o.pc = "calling" \/ (o.pc = "done" /\ o.threw \in {"", "upstream"})

\* C25: executeNql(query, options) calls the upstream execute operation
\* exactly once, with the query unchanged and each flag equal to the
\* caller's when given and to true when omitted, and returns the upstream
\* result unchanged; an nql_execute tool call that omits both flags reaches
\* the upstream with both set to true.
C25_ExecuteNqlPassesThrough ==
    \A c \in Clients :
        LET o == sdk.op[c]
        IN  /\ Len(o.sent) <= 1
            /\ HasExecuted(o)
                 => /\ Len(o.sent) = 1
                    /\ o.sent[1].op = "nql.execute"
                    /\ o.sent[1].s = o.query
                    /\ o.sent[1].flags.generateSample =
                         ("generateSample" \in DOMAIN o.options
                            => o.options["generateSample"])
                    /\ o.sent[1].flags.generateStatistics =
                         ("generateStats" \in DOMAIN o.options
                            => o.options["generateStats"])
            /\ (HasExecuted(o) /\ o.pc = "done" /\ o.threw = "")
                 => o.resp.ok /\ o.result = o.resp.obj /\ o.result.type = "job"
            /\ (HasExecuted(o) /\ o.args # NoArgs /\ DOMAIN o.args \cap NqlFlags = {})
                 => o.sent[1].flags = [generateSample |-> TRUE,
                                       generateStatistics |-> TRUE]

\* C25 witness: executeNql called by the handler of an nql_execute tool call
\* that gave the query alone has returned the job the upstream answered,
\* after one call with both flags true.
C25_Witness ==
    \E c \in Clients :
        LET o == sdk.op[c]
        IN  /\ o.operation = "executeNql" /\ o.pc = "done" /\ o.threw = ""
            /\ o.args = ("query" :> StrV(Q))
            /\ o.sent = <<SdkCall(o.on, "nql.execute", Q, 0,
                                   [generateSample |-> TRUE, generateStatistics |-> TRUE])>>
            /\ o.result.type = "job"

\* C26: the SDK object of the client is constructed at most once, also when
\* several operations call getSDKInstance before the first initialisation
\* has finished, and every caller receives that same instance.
C26_ConstructedOnce ==
    /\ sdk.constructed <= 1
    /\ \A c, d \in Clients :
         (sdk.op[c].on # 0 /\ sdk.op[d].on # 0) => sdk.op[c].on = sdk.op[d].on

\* C30: console.log is the original function in every state, that is,
\* whenever a request may run: after initializeSDK has finished, whether the
\* constructor succeeded or threw, and at every suspension point.
C30_ConsoleLogRestored ==
    sdk.consoleLog = "original"

\* C30 witness: one operation has failed because the SDK constructor threw
\* while another is still waiting, and console.log is the original.
C30_Witness ==
    /\ sdk.op["c1"].pc = "done" /\ sdk.op["c1"].init = "constructor threw"
    /\ sdk.op["c2"].pc = "importing"
    /\ sdk.consoleLog = "original"

====
